---- MODULE Spec2Model ----
(***************************************************************************)
(* Model of geekcommander's core (src/src/core.rs), of the part of the     *)
(* application loop (src/src/ui.rs) that builds and runs file operations,  *)
(* of the archive adapter (src/src/archive.rs) and of the file viewer       *)
(* (src/src/viewer.rs).                                                    *)
(*                                                                         *)
(* A path is a sequence of names, <<>> is the filesystem root.  A file's   *)
(* content is a prefix of a named byte stream: data names the stream and   *)
(* size is the length of the prefix, so that a partial copy, a truncation  *)
(* and a full copy are all distinguishable.  A string the program looks    *)
(* into (a pattern, a file name with its extension, the name of an archive *)
(* member) is the sequence of its bytes.                                   *)
(*                                                                         *)
(* Specifications: Spec (the application with one confirmed operation),    *)
(* PaneSpec (the calls of PaneState over a directory that changes),        *)
(* GlobSpec, ArchiveNameSpec and ArchiveSpec (functions called with every  *)
(* argument of a bounded set), FileOpSpec (create_directory, rename_file), *)
(* NavSpec (the cursor and selection calls of PaneState on their own, and   *)
(* enter_directory), TransferSpec (the application when nobody cancels,    *)
(* with fairness of the engine's steps), ViewerSpec (the file viewer of    *)
(* src/src/viewer.rs and its keys).                                        *)
(***************************************************************************)
EXTENDS Integers, Sequences, FiniteSets, TLC

\* ------------------------------------------------------------------ bounds
\* longest path (in components) the filesystem accepts; longer ones fail
\* with an I/O error, as PATH_MAX does
MaxDepth == 5

\* longest name and longest pattern matches_glob_pattern is called with
MaxLen == 3

\* most pieces (NamePieces) a file name given to the archive functions has
MaxPieces == 3

\* most members a container has
MaxMembers == 3

\* ------------------------------------------------------- program constants
\* core.rs:390  vec![0u8; 64 * 1024]
BufferSize == 65536

\* ------------------------------------------------------------------- names
\* The UTF-8 bytes of the file names that occur in the model.
Bytes(n) ==
    CASE n = ".." -> <<46, 46>>
      [] n = "h"  -> <<104>>
      [] n = "d"  -> <<100>>
      [] n = "f"  -> <<102>>
      [] n = "g"  -> <<103>>
      [] n = "t"  -> <<116>>
      [] n = "p"  -> <<112>>
      [] n = "a"  -> <<97>>
      [] n = "B"  -> <<66>>
      [] n = "b"  -> <<98>>
      [] n = "C"  -> <<67>>
      [] n = "c"  -> <<99>>
      [] n = "e"  -> <<101>>
      [] n = "a.txt" -> <<97, 46, 116, 120, 116>>
      [] n = "b.txt" -> <<98, 46, 116, 120, 116>>
      [] n = "c.log" -> <<99, 46, 108, 111, 103>>

\* str::to_lowercase on ASCII bytes
to_lowercase(bs) ==
    [i \in DOMAIN bs |-> IF bs[i] >= 65 /\ bs[i] <= 90 THEN bs[i] + 32 ELSE bs[i]]

RECURSIVE cmp(_, _)
\* Ord::cmp on strings: lexicographic on bytes
cmp(a, b) ==
    IF a = <<>> /\ b = <<>> THEN "Equal"
    ELSE IF a = <<>> THEN "Less"
    ELSE IF b = <<>> THEN "Greater"
    ELSE IF Head(a) < Head(b) THEN "Less"
    ELSE IF Head(a) > Head(b) THEN "Greater"
    ELSE cmp(Tail(a), Tail(b))

\* str::starts_with
starts_with(s, prefix) == Len(prefix) <= Len(s) /\ SubSeq(s, 1, Len(prefix)) = prefix

\* str::ends_with
ends_with(s, suffix) ==
    Len(suffix) <= Len(s) /\ SubSeq(s, Len(s) - Len(suffix) + 1, Len(s)) = suffix

\* str::contains with a char
contains(s, ch) == \E k \in DOMAIN s : s[k] = ch

RECURSIVE split(_, _)
\* str::split with a char, collected: the parts between the occurrences
split(s, ch) ==
    IF ~contains(s, ch) THEN <<s>>
    ELSE LET k == CHOOSE k \in DOMAIN s : s[k] = ch /\ \A j \in 1..(k - 1) : s[j] # ch
         IN  <<SubSeq(s, 1, k - 1)>> \o split(SubSeq(s, k + 1, Len(s)), ch)

\* '*'
Star == 42

\* core::matches_glob_pattern
matches_glob_pattern(name, pattern) ==
    IF pattern = <<Star>> THEN TRUE
    ELSE IF contains(pattern, Star) /\ Len(split(pattern, Star)) = 2
    THEN LET parts == split(pattern, Star)
         IN  starts_with(name, parts[1]) /\ ends_with(name, parts[2])
    ELSE name = pattern

\* Option: None is the empty sequence, Some(x) the sequence of x alone
None == <<>>

Some(x) == <<x>>

\* ----------------------------------------------------------- archive names
\* '.'
Dot == 46

\* Path::extension of a path whose file name is name: None without a '.',
\* and for a name whose only '.' is its first char; else the part after the
\* last '.'
extension(name) ==
    IF ~contains(name, Dot) THEN None
    ELSE LET k == CHOOSE k \in DOMAIN name :
                    name[k] = Dot /\ \A j \in (k + 1)..Len(name) : name[j] # Dot
         IN  IF k = 1 THEN None ELSE Some(SubSeq(name, k + 1, Len(name)))

\* the literals of is_supported_archive and create_archive_handler
Str_zip == <<122, 105, 112>>

Str_tar == <<116, 97, 114>>

Str_gz == <<103, 122>>

Str_tgz == <<116, 103, 122>>

Str_bz2 == <<98, 122, 50>>

Str_tbz2 == <<116, 98, 122, 50>>

Str_xz == <<120, 122>>

\* core::is_supported_archive, which computes FileEntry.is_archive
is_supported_archive(name) ==
    LET ext == extension(name)
        name_lower == to_lowercase(name)
    IN  IF ext # None /\ to_lowercase(ext[1]) \in {Str_zip, Str_tar, Str_gz, Str_tgz}
        THEN TRUE
        ELSE \/ ends_with(name_lower, <<Dot>> \o Str_tar \o <<Dot>> \o Str_gz)
             \/ ends_with(name_lower, <<Dot>> \o Str_tar \o <<Dot>> \o Str_bz2)
             \/ ends_with(name_lower, <<Dot>> \o Str_tar \o <<Dot>> \o Str_xz)

\* archive::is_supported_archive, the test by the end of the file name
archive_is_supported_archive(name) ==
    LET name_lower == to_lowercase(name)
    IN  \/ ends_with(name_lower, <<Dot>> \o Str_zip)
        \/ ends_with(name_lower, <<Dot>> \o Str_tar)
        \/ ends_with(name_lower, <<Dot>> \o Str_tar \o <<Dot>> \o Str_gz)
        \/ ends_with(name_lower, <<Dot>> \o Str_tgz)
        \/ ends_with(name_lower, <<Dot>> \o Str_tar \o <<Dot>> \o Str_bz2)
        \/ ends_with(name_lower, <<Dot>> \o Str_tbz2)

\* archive::create_archive_handler: the variant built, or the error returned
create_archive_handler(name) ==
    LET ext == extension(name)
        extension_lower == IF ext = None THEN <<>> ELSE to_lowercase(ext[1])
        name_lower == to_lowercase(name)
    IN  IF extension_lower = Str_zip THEN "ZipHandler"
        ELSE IF extension_lower \in {Str_tar, Str_tgz, Str_gz}
        THEN IF \/ ends_with(name_lower, <<Dot>> \o Str_tar \o <<Dot>> \o Str_gz)
                \/ ends_with(name_lower, <<Dot>> \o Str_tgz)
                \/ ends_with(name_lower, <<Dot>> \o Str_tar \o <<Dot>> \o Str_bz2)
                \/ ends_with(name_lower, <<Dot>> \o Str_tbz2)
                \/ ends_with(name_lower, <<Dot>> \o Str_tar)
             THEN "TarHandler"
             ELSE "Unsupported archive format"
        ELSE "Unsupported archive format"

\* ------------------------------------------------------------------- paths
Root == <<>>

\* Path::parent: None at the root
parent(p) == IF p = Root THEN None ELSE Some(SubSeq(p, 1, Len(p) - 1))

\* Path::file_name: None (here "none") at the root
file_name(p) == IF p = Root THEN "none" ELSE p[Len(p)]

\* Path::join with a single component
join(p, n) == Append(p, n)

IsPrefix(p, q) == Len(p) <= Len(q) /\ SubSeq(q, 1, Len(p)) = p

\* -------------------------------------------------------------- filesystem
\* A filesystem is a function from the existing non-root paths to nodes.
DirNode == [is_dir |-> TRUE, data |-> "", size |-> 0]

FileNode(data, size) == [is_dir |-> FALSE, data |-> IF size = 0 THEN "" ELSE data, size |-> size]

exists(fsys, p) == p = Root \/ p \in DOMAIN fsys

is_dir(fsys, p) == p = Root \/ (p \in DOMAIN fsys /\ fsys[p].is_dir)

is_file(fsys, p) == p \in DOMAIN fsys /\ ~fsys[p].is_dir

\* the names fs::read_dir yields for directory p (in no particular order)
read_dir(fsys, p) == {q[Len(q)] : q \in {r \in DOMAIN fsys : Len(r) = Len(p) + 1 /\ IsPrefix(p, r)}}

Put(fsys, p, node) == [q \in DOMAIN fsys \cup {p} |-> IF q = p THEN node ELSE fsys[q]]

\* fs::create_dir_all: fails when a prefix is a file or the path is too long
create_dir_all_ok(fsys, p) ==
    /\ Len(p) <= MaxDepth
    /\ \A k \in 1..Len(p) : ~is_file(fsys, SubSeq(p, 1, k))

create_dir_all(fsys, p) ==
    LET missing == {SubSeq(p, 1, k) : k \in 1..Len(p)} \ DOMAIN fsys
    IN  [q \in DOMAIN fsys \cup missing |-> IF q \in DOMAIN fsys THEN fsys[q] ELSE DirNode]

\* fs::remove_dir_all / fs::remove_file
remove_all(fsys, p) == [q \in {r \in DOMAIN fsys : ~IsPrefix(p, r)} |-> fsys[q]]

\* fs::rename of an entry to a path that does not exist: the entry and
\* everything below it move
rename(fsys, from, to) ==
    LET moved == {r \in DOMAIN fsys : IsPrefix(from, r)}
        target(r) == to \o SubSeq(r, Len(from) + 1, Len(r))
    IN  [q \in (DOMAIN fsys \ moved) \cup {target(r) : r \in moved} |->
            IF q \in DOMAIN fsys \ moved THEN fsys[q]
            ELSE fsys[CHOOSE r \in moved : target(r) = q]]

\* what create_directory and rename_file return, with the filesystem after
\* the call
FileOpOk(path, fsys) == [ok |-> TRUE, err |-> "", path |-> path, fs |-> fsys]

FileOpErr(err, path, fsys) == [ok |-> FALSE, err |-> err, path |-> path, fs |-> fsys]

\* core::create_directory; fail is an I/O error in fs::create_dir
create_directory(fsys, path, name, fail) ==
    LET new_dir == join(path, name)
    IN  IF exists(fsys, new_dir) THEN FileOpErr("FileOperation", new_dir, fsys)
        ELSE IF fail \/ ~is_dir(fsys, path) \/ Len(new_dir) > MaxDepth
        THEN FileOpErr("Io", new_dir, fsys)
        ELSE FileOpOk(new_dir, Put(fsys, new_dir, DirNode))

\* a rename_file that does not look whether the new name is taken:
\* fs::rename replaces the entry that has it
rename_file_replacing(fsys, old_path, new_name, fail) ==
    IF parent(old_path) = None THEN FileOpErr("FileOperation", old_path, fsys)
    ELSE LET new_path == join(parent(old_path)[1], new_name)
         IN  IF fail \/ ~exists(fsys, old_path) \/ Len(new_path) > MaxDepth
             THEN FileOpErr("Io", new_path, fsys)
             ELSE FileOpOk(new_path, rename(remove_all(fsys, new_path), old_path, new_path))

\* core::rename_file; fail is an I/O error in fs::rename
rename_file(fsys, old_path, new_name, fail) ==
    IF parent(old_path) = None THEN FileOpErr("FileOperation", old_path, fsys)
    ELSE LET new_path == join(parent(old_path)[1], new_name)
         IN  IF exists(fsys, new_path) THEN FileOpErr("FileOperation", new_path, fsys)
             ELSE IF fail \/ ~exists(fsys, old_path) \/ Len(new_path) > MaxDepth
             THEN FileOpErr("Io", new_path, fsys)
             ELSE FileOpOk(new_path, rename(fsys, old_path, new_path))

RECURSIVE Perms(_)
\* all permutations of a finite set, as sequences
Perms(S) ==
    IF S = {} THEN {<<>>}
    ELSE UNION {{<<x>> \o s : s \in Perms(S \ {x})} : x \in S}

RECURSIVE SumSeq(_)
SumSeq(s) == IF s = <<>> THEN 0 ELSE Head(s) + SumSeq(Tail(s))

\* -------------------------------------------------------- archive containers
\* A container is the sequence of its members in stored order; a member has
\* its full name (directories are stored with a trailing '/'), the directory
\* flag of its header, and its bytes, which the model names by the member.
\* '/'
Slash == 47

RECURSIVE trim_start_matches(_, _)
\* str::trim_start_matches with a char
trim_start_matches(s, ch) ==
    IF s # <<>> /\ Head(s) = ch THEN trim_start_matches(Tail(s), ch) ELSE s

\* the is_dir of an ArchiveEntry: ZipHandler takes it from the name,
\* TarHandler from the entry type of the header
member_is_dir(variant, m) ==
    IF variant = "zip" THEN ends_with(m.name, <<Slash>>) ELSE m.is_dir

\* the body of the loop of list_entries: the entry pushed for member m, if any
list_entries_push(variant, m, prefix) ==
    IF ~starts_with(m.name, prefix) THEN <<>>
    ELSE LET relative_name == SubSeq(m.name, Len(prefix) + 1, Len(m.name))
             path_parts == split(trim_start_matches(relative_name, Slash), Slash)
         IN  IF relative_name = <<>> THEN <<>>
             ELSE IF Len(path_parts) = 1 \/ (Len(path_parts) = 2 /\ path_parts[2] = <<>>)
             THEN <<[name |-> path_parts[1], path |-> m.name,
                     is_dir |-> member_is_dir(variant, m)]>>
             ELSE <<>>

RECURSIVE list_entries_loop(_, _, _)
list_entries_loop(variant, members, prefix) ==
    IF members = <<>> THEN <<>>
    ELSE list_entries_push(variant, Head(members), prefix)
         \o list_entries_loop(variant, Tail(members), prefix)

\* the comparator of list_entries' sort_by
ArchiveEntryCmp(a, b) ==
    IF a.is_dir /\ ~b.is_dir THEN "Less"
    ELSE IF ~a.is_dir /\ b.is_dir THEN "Greater"
    ELSE cmp(a.name, b.name)

RECURSIVE ArchiveInsert(_, _)
ArchiveInsert(sorted, x) ==
    IF sorted = <<>> THEN <<x>>
    ELSE IF ArchiveEntryCmp(x, sorted[Len(sorted)]) = "Less"
         THEN Append(ArchiveInsert(SubSeq(sorted, 1, Len(sorted) - 1), x), sorted[Len(sorted)])
         ELSE Append(sorted, x)

RECURSIVE archive_sort_by(_)
archive_sort_by(s) ==
    IF s = <<>> THEN <<>>
    ELSE ArchiveInsert(archive_sort_by(SubSeq(s, 1, Len(s) - 1)), s[Len(s)])

RECURSIVE dedup_by(_)
\* Vec::dedup_by(|a, b| a.name == b.name): of consecutive entries with the
\* same name the first is kept
dedup_by(s) ==
    IF Len(s) <= 1 THEN s
    ELSE LET front == dedup_by(SubSeq(s, 1, Len(s) - 1))
         IN  IF s[Len(s)].name = front[Len(front)].name THEN front
             ELSE Append(front, s[Len(s)])

\* an error of the archive adapter built by GeekCommanderError::archive
archive_error == "Archive"

\* ZipError as the `?` of ZipHandler returns it
zip_error == "Archive"

\* the error the `?` on File::open returns
io_error == "Io"

\* what a call of the archive adapter returns: Ok or an error, with the
\* entries listed and the members whose bytes were written to the sink
ArchiveOk(entries, output) == [ok |-> TRUE, err |-> "", entries |-> entries, output |-> output]

ArchiveErr(err) == [ok |-> FALSE, err |-> err, entries |-> <<>>, output |-> <<>>]

\* ZipHandler::list_entries and TarHandler::list_entries
list_entries(variant, members, virtual_path, readable) ==
    IF ~readable THEN ArchiveErr(io_error)
    ELSE ArchiveOk(dedup_by(archive_sort_by(list_entries_loop(variant, members, virtual_path))),
                   <<>>)

HasMember(members, entry_path) == \E k \in DOMAIN members : members[k].name = entry_path

\* the error of a member that is not in the container: ZipArchive::by_name
\* fails, the loop of TarHandler ends without a match
not_found(variant) == IF variant = "zip" THEN zip_error ELSE archive_error

\* ZipHandler::extract_file and TarHandler::extract_file
extract_file(variant, members, entry_path, readable) ==
    IF ~readable THEN ArchiveErr(io_error)
    ELSE IF HasMember(members, entry_path) THEN ArchiveOk(<<>>, <<entry_path>>)
    ELSE ArchiveErr(not_found(variant))

\* the file extract_to_disk writes
ExtractedFile == [is_dir |-> FALSE, data |-> "member", size |-> 1]

\* an extract_to_disk that prepares the output before it looks for the member
extract_to_disk_eager(variant, members, entry_path, output_path, fsys, readable) ==
    LET dir == IF parent(output_path) = None THEN Root ELSE parent(output_path)[1]
        f1 == IF create_dir_all_ok(fsys, dir) THEN create_dir_all(fsys, dir) ELSE fsys
    IN  IF ~readable THEN [ret |-> ArchiveErr(io_error), fs |-> fsys]
        ELSE IF ~HasMember(members, entry_path)
        THEN [ret |-> ArchiveErr(not_found(variant)), fs |-> f1]
        ELSE [ret |-> ArchiveOk(<<>>, <<>>), fs |-> Put(f1, output_path, ExtractedFile)]

\* ZipHandler::extract_to_disk and TarHandler::extract_to_disk: what is
\* returned and the filesystem after the call
extract_to_disk(variant, members, entry_path, output_path, fsys, readable) ==
    LET dir == IF parent(output_path) = None THEN Root ELSE parent(output_path)[1]
    IN  IF ~readable THEN [ret |-> ArchiveErr(io_error), fs |-> fsys]
        ELSE IF ~HasMember(members, entry_path)
        THEN [ret |-> ArchiveErr(not_found(variant)), fs |-> fsys]
        ELSE IF ~create_dir_all_ok(fsys, dir)
        THEN [ret |-> ArchiveErr(io_error), fs |-> fsys]
        ELSE LET f1 == create_dir_all(fsys, dir)
             IN  IF output_path = Root \/ is_dir(f1, output_path) \/ Len(output_path) > MaxDepth
                 THEN [ret |-> ArchiveErr(io_error), fs |-> f1]
                 ELSE [ret |-> ArchiveOk(<<>>, <<>>), fs |-> Put(f1, output_path, ExtractedFile)]

\* -------------------------------------------------------------- pane state
ParentEntry(p) == [name |-> "..", path |-> parent(p)[1], is_dir |-> TRUE]

ChildEntry(fsys, p, n) == [name |-> n, path |-> join(p, n), is_dir |-> fsys[join(p, n)].is_dir]

\* the comparator without the lower-casing of the names
EntryCmp_CaseSensitive(a, b) ==
    IF a.name = ".." THEN "Less"
    ELSE IF b.name = ".." THEN "Greater"
    ELSE IF a.is_dir /\ ~b.is_dir THEN "Less"
    ELSE IF ~a.is_dir /\ b.is_dir THEN "Greater"
    ELSE cmp(Bytes(a.name), Bytes(b.name))

\* the comparator of refresh's sort_by
EntryCmp(a, b) ==
    IF a.name = ".." THEN "Less"
    ELSE IF b.name = ".." THEN "Greater"
    ELSE IF a.is_dir /\ ~b.is_dir THEN "Less"
    ELSE IF ~a.is_dir /\ b.is_dir THEN "Greater"
    ELSE cmp(to_lowercase(Bytes(a.name)), to_lowercase(Bytes(b.name)))

RECURSIVE Insert(_, _)
\* one step of the stable insertion sort slice::sort_by uses on short slices
Insert(sorted, x) ==
    IF sorted = <<>> THEN <<x>>
    ELSE IF EntryCmp(x, sorted[Len(sorted)]) = "Less"
         THEN Append(Insert(SubSeq(sorted, 1, Len(sorted) - 1), x), sorted[Len(sorted)])
         ELSE Append(sorted, x)

RECURSIVE sort_by(_)
sort_by(s) == IF s = <<>> THEN <<>> ELSE Insert(sort_by(SubSeq(s, 1, Len(s) - 1)), s[Len(s)])

\* a refresh that never pushes the parent entry
refresh_parent_absent(p) == <<>>

\* the parent entry refresh pushes first, when there is a parent
refresh_parent(p) == IF parent(p) # None THEN <<ParentEntry(p)>> ELSE <<>>

\* a retain that drops no index
retain_every_index(selected, len) == selected

\* self.selected_indices.retain(|&i| i < self.entries.len())
retain(selected, len) == {i \in selected : i < len}

\* PaneState::refresh.  order is the order in which read_dir yields the
\* children; failAt = 0 makes read_dir fail, failAt = k makes the metadata
\* call of the k-th child fail, a larger failAt lets the refresh succeed.
\* The result is the pane after the call and whether the call returned Ok.
refresh(pane, fsys, order, failAt) ==
    LET p        == pane.current_path
        first    == refresh_parent(p)
        child(k) == ChildEntry(fsys, p, order[k])
        upto(n)  == first \o [k \in 1..n |-> child(k)]
        sorted   == sort_by(upto(Len(order)))
    IN  IF failAt = 0 \/ ~is_dir(fsys, p)
        THEN [ok |-> FALSE, pane |-> [pane EXCEPT !.entries = first]]
        ELSE IF failAt <= Len(order)
        THEN [ok |-> FALSE, pane |-> [pane EXCEPT !.entries = upto(failAt - 1)]]
        ELSE [ok |-> TRUE,
              pane |-> [pane EXCEPT
                  !.entries = sorted,
                  !.cursor_index = IF pane.cursor_index >= Len(sorted) THEN 0 ELSE pane.cursor_index,
                  !.selected_indices = retain(pane.selected_indices, Len(sorted))]]

\* PaneState::enter_directory.  order and failAt are those of the refresh it
\* calls; a new_path that is no directory is ignored and Ok returned
enter_directory(pane, new_path, fsys, order, failAt) ==
    IF is_dir(fsys, new_path)
    THEN refresh([pane EXCEPT !.current_path = new_path,
                              !.cursor_index = 0,
                              !.scroll_offset = 0,
                              !.selected_indices = {}],
                 fsys, order, failAt)
    ELSE [ok |-> TRUE, pane |-> pane]

\* the pane PaneState::new builds before its first refresh
NewPane(p) ==
    [current_path |-> p, entries |-> <<>>, cursor_index |-> 0, scroll_offset |-> 0,
     selected_indices |-> {}]

\* PaneState::get_current_entry: None when the cursor is past the end
get_current_entry(pane) ==
    IF pane.cursor_index < Len(pane.entries) THEN Some(pane.entries[pane.cursor_index + 1]) ELSE None

\* PaneState::cursor_up
cursor_up(pane) ==
    IF pane.cursor_index > 0 THEN [pane EXCEPT !.cursor_index = @ - 1] ELSE pane

\* usize::saturating_sub
saturating_sub(a, b) == IF a > b THEN a - b ELSE 0

\* PaneState::cursor_down
cursor_down(pane) ==
    IF pane.cursor_index < saturating_sub(Len(pane.entries), 1)
    THEN [pane EXCEPT !.cursor_index = @ + 1] ELSE pane

\* usize::min
Min(a, b) == IF a < b THEN a ELSE b

\* usize::max
Max(a, b) == IF a > b THEN a ELSE b

\* a page of the whole viewport
page_size_viewport(viewport_height) == Max(viewport_height, 1)

\* let page_size = viewport_height.saturating_sub(2).max(1)
page_size(viewport_height) == Max(saturating_sub(viewport_height, 2), 1)

\* a page_up that scrolls the view to the cursor
page_up_scrolling(pane, viewport_height) ==
    [pane EXCEPT !.cursor_index = saturating_sub(@, page_size(viewport_height)),
                 !.scroll_offset = saturating_sub(pane.cursor_index, page_size(viewport_height))]

\* PaneState::page_up
page_up(pane, viewport_height) ==
    [pane EXCEPT !.cursor_index = saturating_sub(@, page_size(viewport_height))]

\* a page_down that is not held at the last entry
page_down_unbounded(pane, viewport_height) ==
    [pane EXCEPT !.cursor_index = @ + page_size(viewport_height)]

\* PaneState::page_down
page_down(pane, viewport_height) ==
    [pane EXCEPT !.cursor_index =
        Min(@ + page_size(viewport_height), saturating_sub(Len(pane.entries), 1))]

\* PaneState::cursor_home
cursor_home(pane) == [pane EXCEPT !.cursor_index = 0]

\* a cursor_end that goes to entries.len()
cursor_end_past(pane) == [pane EXCEPT !.cursor_index = Len(pane.entries)]

\* PaneState::cursor_end
cursor_end(pane) == [pane EXCEPT !.cursor_index = saturating_sub(Len(pane.entries), 1)]

\* a toggle_selection that only ever inserts
toggle_selection_insert(pane) ==
    IF pane.cursor_index < Len(pane.entries)
    THEN [pane EXCEPT !.selected_indices = @ \cup {pane.cursor_index}]
    ELSE pane

\* PaneState::toggle_selection
toggle_selection(pane) ==
    IF pane.cursor_index < Len(pane.entries)
    THEN IF pane.cursor_index \in pane.selected_indices
         THEN [pane EXCEPT !.selected_indices = @ \ {pane.cursor_index}]
         ELSE [pane EXCEPT !.selected_indices = @ \cup {pane.cursor_index}]
    ELSE pane

\* PaneState::deselect_all
deselect_all(pane) == [pane EXCEPT !.selected_indices = {}]

\* a select_all that leaves out no entry
select_all_entries(pane) ==
    [pane EXCEPT !.selected_indices = {i \in 0..(Len(pane.entries) - 1) : TRUE}]

\* PaneState::select_all
select_all(pane) ==
    [pane EXCEPT !.selected_indices =
        {i \in 0..(Len(pane.entries) - 1) : pane.entries[i + 1].name # ".."}]

\* PaneState::select_by_pattern: the pane after the call and the count returned
select_by_pattern(pane, pattern) ==
    LET matched == {i \in 0..(Len(pane.entries) - 1) :
                      /\ pane.entries[i + 1].name # ".."
                      /\ matches_glob_pattern(Bytes(pane.entries[i + 1].name), pattern)}
    IN  [pane |-> [pane EXCEPT !.selected_indices = @ \cup matched],
         count |-> Cardinality(matched)]

\* PaneState::get_selected_entries: the selected entries in every order a
\* HashSet iteration can produce
get_selected_entries(pane) ==
    LET valid == {i \in pane.selected_indices : i < Len(pane.entries)}
    IN  {[k \in DOMAIN s |-> pane.entries[s[k] + 1]] : s \in Perms(valid)}

\* ------------------------------------------------------------ file sizes
RECURSIVE get_path_size(_, _), SumPathSizes(_, _)
\* core::get_path_size: size of a file, recursive sum for a directory, 0
\* for a path that is neither
get_path_size(fsys, p) ==
    IF is_file(fsys, p) THEN fsys[p].size
    ELSE IF is_dir(fsys, p)
    THEN SumPathSizes(fsys, {r \in DOMAIN fsys : Len(r) = Len(p) + 1 /\ IsPrefix(p, r)})
    ELSE 0

\* the loop of get_path_size over the entries of a directory
SumPathSizes(fsys, kids) ==
    IF kids = {} THEN 0
    ELSE LET r == CHOOSE r \in kids : TRUE
         IN  get_path_size(fsys, r) + SumPathSizes(fsys, kids \ {r})

\* core::calculate_total_size over the paths of the source entries
calculate_total_size(fsys, sources) ==
    SumSeq([k \in DOMAIN sources |-> get_path_size(fsys, sources[k].path)])

\* ------------------------------------------------------------------- state
VARIABLES
    fs,              \* the filesystem
    left_pane,       \* App.left_pane
    right_pane,      \* App.right_pane
    active_pane,     \* App.active_pane, 0 or 1
    current_dialog,  \* App.current_dialog
    operation,       \* the FileOperation being executed
    pc,              \* where the application is
    idx,             \* position of the running loop in operation.source_files
    stack,           \* the pending calls of copy_directory_recursive
    cur,             \* the file copy_file_with_progress is copying
    result,          \* what execute_operation returned: "none", "ok", "err"
    written,         \* bytes this execution has written to destination files
    created,         \* destination files this execution has created
    fs0,             \* the filesystem when the operation was constructed
    cancelled_at,    \* where the execution was when cancelled was set
    last_refresh,    \* for each pane, whether its last refresh returned Ok
    args,            \* the arguments a function is called with
    ret              \* the function called last and the value it returned; for
                     \* a method of PaneState, what it was called on as well

vars == <<fs, left_pane, right_pane, active_pane, current_dialog, operation, pc,
          idx, stack, cur, result, written, created, fs0, cancelled_at, last_refresh,
          args, ret>>

NoDialog == [type |-> "None", action |-> "None"]

NoOperation ==
    [operation_type |-> "None", source_files |-> <<>>, destination |-> Root,
     total_size |-> 0, processed_size |-> 0, current_file |-> "none",
     completed |-> FALSE, cancelled |-> FALSE]

NoFile == [source |-> Root, dest |-> Root, data |-> "", offset |-> 0]

NotCancelled == [pc |-> "none", idx |-> 0]

NoArgs == [fn |-> "none"]

NoRet == [fn |-> "none", value |-> 0]


\* ----------------------------------------------------------- initial trees
Home == <<"h">>

Sub == <<"h", "d">>

Target == <<"t">>

TreeA ==
    (Home :> DirNode) @@ (Sub :> DirNode) @@ (<<"h", "d", "g">> :> FileNode("g", 7))
    @@ (<<"h", "f">> :> FileNode("f", 70000)) @@ (Target :> DirNode)

\* the same tree with the target already holding entries named like sources
TreeB ==
    TreeA @@ (<<"t", "f">> :> FileNode("old", 9)) @@ (<<"t", "d">> :> FileNode("old", 3))

\* the directories the configuration may name as a pane's starting path
LeftStarts == {Home, Sub}

RightStarts == {Target, Home, Sub}

\* App::new: both panes are built by PaneState::new, which refreshes once
Init ==
    /\ fs \in {TreeA, TreeB}
    /\ \E l \in LeftStarts, r \in RightStarts :
         /\ \E o \in Perms(read_dir(fs, l)) :
              left_pane = refresh(NewPane(l), fs, o, Len(o) + 1).pane
         /\ \E o \in Perms(read_dir(fs, r)) :
              right_pane = refresh(NewPane(r), fs, o, Len(o) + 1).pane
    /\ active_pane = 0
    /\ current_dialog = NoDialog
    /\ operation = NoOperation
    /\ pc = "idle"
    /\ idx = 1
    /\ stack = <<>>
    /\ cur = NoFile
    /\ result = "none"
    /\ written = 0
    /\ created = {}
    /\ fs0 = fs
    /\ cancelled_at = NotCancelled
    /\ last_refresh = [i \in {0, 1} |-> TRUE]
    /\ args = NoArgs
    /\ ret = NoRet

get_active_pane == IF active_pane = 0 THEN left_pane ELSE right_pane

get_inactive_pane == IF active_pane = 0 THEN right_pane ELSE left_pane

SetActivePane(p) ==
    IF active_pane = 0 THEN left_pane' = p /\ UNCHANGED right_pane
    ELSE right_pane' = p /\ UNCHANGED left_pane

engine_vars == <<operation, idx, stack, cur, result, written, created, fs0, cancelled_at>>

\* --------------------------------------------------------------- key events
\* handle_key_event is only reached from App::run while no operation runs
AcceptsKeys == pc = "idle"

\* KeyCode::Up
KeyUp ==
    /\ AcceptsKeys /\ current_dialog = NoDialog
    /\ SetActivePane(cursor_up(get_active_pane))
    /\ ret' = NoRet
    /\ UNCHANGED <<fs, active_pane, args, current_dialog, pc, engine_vars, last_refresh>>

\* KeyCode::Down
KeyDown ==
    /\ AcceptsKeys /\ current_dialog = NoDialog
    /\ SetActivePane(cursor_down(get_active_pane))
    /\ ret' = NoRet
    /\ UNCHANGED <<fs, active_pane, args, current_dialog, pc, engine_vars, last_refresh>>

\* KeyCode::Home
KeyHome ==
    /\ AcceptsKeys /\ current_dialog = NoDialog
    /\ SetActivePane(cursor_home(get_active_pane))
    /\ ret' = [fn |-> "cursor_home", value |-> 0]
    /\ UNCHANGED <<fs, active_pane, args, current_dialog, pc, engine_vars, last_refresh>>

\* KeyCode::End
KeyEnd ==
    /\ AcceptsKeys /\ current_dialog = NoDialog
    /\ SetActivePane(cursor_end(get_active_pane))
    /\ ret' = [fn |-> "cursor_end", value |-> 0]
    /\ UNCHANGED <<fs, active_pane, args, current_dialog, pc, engine_vars, last_refresh>>

\* keybindings.select -> handle_select
HandleSelect ==
    /\ AcceptsKeys /\ current_dialog = NoDialog
    /\ SetActivePane(toggle_selection(get_active_pane))
    /\ ret' = NoRet
    /\ UNCHANGED <<fs, active_pane, args, current_dialog, pc, engine_vars, last_refresh>>

\* the model follows the application up to the end of the first operation
\* the user confirms
FirstOperation == operation.operation_type = "None"

\* handle_copy / handle_move / handle_delete: open the Confirm dialog
HandleConfirmable(action) ==
    /\ AcceptsKeys /\ current_dialog = NoDialog
    /\ FirstOperation
    /\ LET pane == get_active_pane
           current == get_current_entry(pane)
           selected == Cardinality({i \in pane.selected_indices : i < Len(pane.entries)})
       IN  IF selected = 0
           THEN IF current # None /\ current[1].name # ".."
                THEN current_dialog' = [type |-> "Confirm", action |-> action]
                ELSE UNCHANGED current_dialog
           ELSE current_dialog' = [type |-> "Confirm", action |-> action]
    /\ UNCHANGED <<fs, left_pane, right_pane, active_pane, args, ret, pc, engine_vars, last_refresh>>

handle_copy == HandleConfirmable("Copy")

handle_move == HandleConfirmable("Move")

handle_delete == HandleConfirmable("Delete")

\* handle_dialog_key on a Confirm dialog: 'n', 'N' or Esc; and any key on an
\* Error dialog
DialogClose ==
    /\ AcceptsKeys /\ current_dialog.type \in {"Confirm", "Error"}
    /\ current_dialog' = NoDialog
    /\ UNCHANGED <<fs, left_pane, right_pane, active_pane, args, ret, pc, engine_vars, last_refresh>>

\* ---------------------------------------------------- building an operation
\* the operation built is a Delete whatever the dialog asked
NewOperation_delete(type, sources, dest, fsys) ==
    [operation_type |-> "Delete",
     source_files |-> [k \in DOMAIN sources |-> sources[k].path],
     destination |-> Root,
     total_size |-> calculate_total_size(fsys, sources),
     processed_size |-> 0, current_file |-> "none",
     completed |-> FALSE, cancelled |-> FALSE]

\* core::copy_files / move_files / delete_files
NewOperation(type, sources, dest, fsys) ==
    [operation_type |-> type,
     source_files |-> [k \in DOMAIN sources |-> sources[k].path],
     destination |-> IF type = "Delete" THEN Root ELSE dest,
     total_size |-> calculate_total_size(fsys, sources),
     processed_size |-> 0, current_file |-> "none",
     completed |-> FALSE, cancelled |-> FALSE]

\* handle_dialog_key 'y'/'Y' on a Confirm dialog: execute_confirm_action up
\* to the call of execute_operation.  fail is an I/O error in
\* calculate_total_size.
DialogYes ==
    /\ AcceptsKeys /\ current_dialog.type = "Confirm"
    /\ LET pane == get_active_pane
           current == get_current_entry(pane)
           dest == get_inactive_pane.current_path
       IN  \E selected \in get_selected_entries(pane), fail \in BOOLEAN :
             LET sources == IF selected = <<>>
                            THEN current
                            ELSE selected
             IN  IF sources = <<>>
                 THEN /\ current_dialog' = NoDialog
                      /\ UNCHANGED <<operation, pc, fs0>>
                 ELSE IF fail
                 THEN /\ current_dialog' = [type |-> "Error", action |-> current_dialog.action]
                      /\ UNCHANGED <<operation, pc, fs0>>
                 ELSE /\ current_dialog' = NoDialog
                      /\ operation' = NewOperation(current_dialog.action, sources, dest, fs)
                      /\ pc' = IF current_dialog.action = "Delete" THEN "delete_loop" ELSE "copy_loop"
                      /\ fs0' = fs
    /\ idx' = 1 /\ stack' = <<>> /\ cur' = NoFile /\ result' = "none"
    /\ written' = 0 /\ created' = {} /\ cancelled_at' = NotCancelled
    /\ UNCHANGED <<fs, left_pane, right_pane, active_pane, args, ret, last_refresh>>

\* the holder of the operation sets its public cancelled field
Cancel ==
    /\ pc \in {"copy_loop", "dir_loop", "file_loop", "move_check", "move_remove", "delete_loop"}
    /\ ~operation.cancelled
    /\ operation' = [operation EXCEPT !.cancelled = TRUE]
    /\ cancelled_at' = [pc |-> pc, idx |-> idx]
    /\ UNCHANGED <<fs, left_pane, right_pane, active_pane, args, ret, current_dialog, pc, idx, stack,
                   cur, result, written, created, fs0, last_refresh>>

ui_vars == <<left_pane, right_pane, active_pane, args, ret, current_dialog, last_refresh, fs0, cancelled_at>>

\* ------------------------------------------------------- the transfer engine
\* an I/O call failed: the `?` returns the error from execute_operation
ErrIO(f, st) ==
    /\ fs' = f /\ stack' = st /\ pc' = "returned" /\ result' = "err"
    /\ UNCHANGED <<cur, created>>

\* the function that called copy_file_with_progress or
\* copy_directory_recursive gets Ok(()) back and goes on with its loop
Caller(st) == IF st = <<>> THEN "copy_loop" ELSE "dir_loop"

\* copy_directory_recursive up to its loop: create_dir_all(dest), read_dir(source)
StartDir(src, dst, st) ==
    IF ~create_dir_all_ok(fs, dst)
    THEN ErrIO(fs, st)
    ELSE LET f1 == create_dir_all(fs, dst)
         IN  \E order \in Perms(read_dir(f1, src)) :
               /\ fs' = f1
               /\ stack' = Append(st, [source |-> src, dest |-> dst, todo |-> order])
               /\ pc' = "dir_loop" /\ result' = result
               /\ UNCHANGED <<cur, created>>

\* copy_file_with_progress up to its loop: create_dir_all(parent), open, create
StartFile(src, dst, st) ==
    IF ~create_dir_all_ok(fs, parent(dst)[1])
    THEN ErrIO(fs, st)
    ELSE LET f1 == create_dir_all(fs, parent(dst)[1])
         IN  IF ~is_file(f1, src) \/ is_dir(f1, dst) \/ Len(dst) > MaxDepth
             THEN ErrIO(f1, st)
             ELSE /\ fs' = Put(f1, dst, FileNode("", 0))
                  /\ cur' = [source |-> src, dest |-> dst, data |-> f1[src].data, offset |-> 0]
                  /\ created' = created \cup {dst}
                  /\ stack' = st /\ pc' = "file_loop" /\ result' = result

\* a loop that does not look at the cancelled flag
execute_copy_operation_NoBreak(cancelled, i, n) == i > n

\* the loop of execute_copy_operation ends at the end of the sources or on
\* the cancelled flag
execute_copy_operation_Ends(cancelled, i, n) == i > n \/ cancelled

\* one iteration of the loop of execute_copy_operation, or its end
execute_copy_operation ==
    /\ pc = "copy_loop"
    /\ IF execute_copy_operation_Ends(operation.cancelled, idx, Len(operation.source_files))
       THEN /\ operation' = [operation EXCEPT !.completed = TRUE]
            /\ IF operation.operation_type = "Copy"
               THEN pc' = "returned" /\ result' = "ok"
               ELSE pc' = "move_check" /\ result' = result
            /\ UNCHANGED <<fs, idx, stack, cur, created>>
       ELSE LET src == operation.source_files[idx]
                name == file_name(src)
            IN  IF name = "none"
                THEN ErrIO(fs, stack) /\ UNCHANGED <<operation, idx>>
                ELSE /\ operation' = [operation EXCEPT !.current_file = name]
                     /\ idx' = idx + 1
                     /\ \E fail \in BOOLEAN :
                          IF fail THEN ErrIO(fs, stack)
                          ELSE IF is_dir(fs, src)
                          THEN StartDir(src, join(operation.destination, name), stack)
                          ELSE StartFile(src, join(operation.destination, name), stack)
    /\ UNCHANGED <<written, ui_vars>>

\* one iteration of the loop of copy_directory_recursive, or its end
copy_directory_recursive ==
    /\ pc = "dir_loop"
    /\ LET top == stack[Len(stack)]
           rest == SubSeq(stack, 1, Len(stack) - 1)
       IN  IF operation.cancelled \/ top.todo = <<>>
           THEN /\ stack' = rest /\ pc' = Caller(rest)
                /\ UNCHANGED <<fs, cur, created, result>>
           ELSE LET n == Head(top.todo)
                    st == [stack EXCEPT ![Len(stack)].todo = Tail(@)]
                IN  \E fail \in BOOLEAN :
                      IF fail THEN ErrIO(fs, st)
                      ELSE IF is_dir(fs, join(top.source, n))
                      THEN StartDir(join(top.source, n), join(top.dest, n), st)
                      ELSE StartFile(join(top.source, n), join(top.dest, n), st)
    /\ UNCHANGED <<operation, idx, written, ui_vars>>

\* progress counted by the size of the buffer instead of the bytes read
progress_whole_buffer(n) == BufferSize

\* operation.processed_size += bytes_read as u64
progress(n) == n

\* Read::read into the 64 KiB buffer: the bytes left, at most a buffer full
bytes_read(fsys, c) == Min(BufferSize, saturating_sub(fsys[c.source].size, c.offset))

\* a read of no bytes does not end the loop
end_of_file_never(n) == FALSE

\* `if bytes_read == 0 { break; }`
end_of_file(n) == n = 0

\* one iteration of the loop of copy_file_with_progress, or its end
copy_file_with_progress ==
    /\ pc = "file_loop"
    /\ IF operation.cancelled
       THEN /\ pc' = Caller(stack)
            /\ UNCHANGED <<fs, operation, cur, result, written>>
       ELSE \E fail \in BOOLEAN :
              IF fail
              THEN /\ pc' = "returned" /\ result' = "err"
                   /\ UNCHANGED <<fs, operation, cur, written>>
              ELSE LET n == bytes_read(fs, cur)
                   IN  IF end_of_file(n)
                       THEN /\ pc' = Caller(stack)
                            /\ UNCHANGED <<fs, operation, cur, result, written>>
                       ELSE /\ fs' = Put(fs, cur.dest,
                                         FileNode(fs[cur.source].data, fs[cur.dest].size + n))
                            /\ operation' = [operation EXCEPT !.processed_size = @ + progress(n)]
                            /\ cur' = [cur EXCEPT !.offset = @ + n]
                            /\ written' = written + n
                            /\ UNCHANGED <<pc, result>>
    /\ UNCHANGED <<idx, stack, created, ui_vars>>

\* originals removed whether or not the operation was cancelled
removes_originals_always(cancelled) == TRUE

\* `if !operation.cancelled` before the removal loop of execute_move_operation
removes_originals(cancelled) == ~cancelled

\* execute_move_operation after execute_copy_operation returned Ok
execute_move_operation ==
    /\ pc = "move_check"
    /\ IF removes_originals(operation.cancelled)
       THEN pc' = "move_remove" /\ idx' = 1 /\ result' = result
       ELSE pc' = "returned" /\ result' = "ok" /\ UNCHANGED idx
    /\ UNCHANGED <<fs, operation, stack, cur, written, created, ui_vars>>

\* fs::remove_dir_all / fs::remove_file on a source: fails on a missing path
remove_ok(fsys, p) == p # Root /\ exists(fsys, p)

\* one iteration of the removal loop of execute_move_operation, or its end
execute_move_operation_remove ==
    /\ pc = "move_remove"
    /\ IF idx > Len(operation.source_files)
       THEN pc' = "returned" /\ result' = "ok" /\ UNCHANGED <<fs, idx>>
       ELSE LET src == operation.source_files[idx]
            IN  \E fail \in BOOLEAN :
                  IF fail \/ ~remove_ok(fs, src)
                  THEN pc' = "returned" /\ result' = "err" /\ UNCHANGED <<fs, idx>>
                  ELSE /\ fs' = remove_all(fs, src)
                       /\ idx' = idx + 1
                       /\ UNCHANGED <<pc, result>>
    /\ UNCHANGED <<operation, stack, cur, written, created, ui_vars>>

\* the size execute_delete_operation adds for a source: get_path_size is
\* called when the source has been removed
delete_progress(before, after, p) == get_path_size(after, p)

\* one iteration of the loop of execute_delete_operation, or its end
execute_delete_operation ==
    /\ pc = "delete_loop"
    /\ IF idx > Len(operation.source_files) \/ operation.cancelled
       THEN /\ operation' = [operation EXCEPT !.completed = TRUE]
            /\ pc' = "returned" /\ result' = "ok"
            /\ UNCHANGED <<fs, idx>>
       ELSE LET src == operation.source_files[idx]
                name == file_name(src)
            IN  IF name = "none"
                THEN pc' = "returned" /\ result' = "err" /\ UNCHANGED <<fs, idx, operation>>
                ELSE \E fail \in BOOLEAN :
                       IF fail \/ ~remove_ok(fs, src)
                       THEN /\ operation' = [operation EXCEPT !.current_file = name]
                            /\ pc' = "returned" /\ result' = "err"
                            /\ UNCHANGED <<fs, idx>>
                       ELSE /\ fs' = remove_all(fs, src)
                            /\ operation' = [operation EXCEPT
                                   !.current_file = name,
                                   !.processed_size = @ + delete_progress(fs, fs', src)]
                            /\ idx' = idx + 1
                            /\ UNCHANGED <<pc, result>>
    /\ UNCHANGED <<stack, cur, written, created, ui_vars>>

\* the choices a refresh of pane can meet: the order of read_dir and the
\* call that fails, if any
RefreshChoices(pane, fsys) ==
    {<<o, k>> : o \in Perms(read_dir(fsys, pane.current_path)),
                k \in 0..(Cardinality(read_dir(fsys, pane.current_path)) + 1)}

\* execute_confirm_action after execute_operation returned: show the error,
\* or refresh the panes and clear the selection.  A refresh that fails is
\* returned with `?` up to App::run, which ends the application.
execute_confirm_action ==
    /\ pc = "returned"
    /\ IF result = "err"
       THEN /\ current_dialog' = [type |-> "Error", action |-> operation.operation_type]
            /\ pc' = "idle"
            /\ UNCHANGED <<left_pane, right_pane, last_refresh>>
       ELSE IF operation.operation_type = "Delete"
       THEN \E c \in RefreshChoices(get_active_pane, fs) :
              LET r == refresh(get_active_pane, fs, c[1], c[2])
              IN  /\ SetActivePane(IF r.ok THEN deselect_all(r.pane) ELSE r.pane)
                  /\ pc' = IF r.ok THEN "idle" ELSE "exited"
                  /\ last_refresh' = [last_refresh EXCEPT
                         ![active_pane] = r.ok]
                  /\ UNCHANGED current_dialog
       ELSE \E cl \in RefreshChoices(left_pane, fs), cr \in RefreshChoices(right_pane, fs) :
              LET l == refresh(left_pane, fs, cl[1], cl[2])
                  r == refresh(right_pane, fs, cr[1], cr[2])
              IN  IF ~l.ok
                  THEN /\ left_pane' = l.pane /\ pc' = "exited"
                       /\ last_refresh' = [last_refresh EXCEPT ![0] = FALSE]
                       /\ UNCHANGED <<right_pane, current_dialog>>
                  ELSE IF ~r.ok
                  THEN /\ left_pane' = l.pane /\ right_pane' = r.pane /\ pc' = "exited"
                       /\ last_refresh' = [i \in {0, 1} |-> i = 0]
                       /\ UNCHANGED current_dialog
                  ELSE /\ left_pane' = IF active_pane = 0 THEN deselect_all(l.pane) ELSE l.pane
                       /\ right_pane' = IF active_pane = 1 THEN deselect_all(r.pane) ELSE r.pane
                       /\ pc' = "idle"
                       /\ last_refresh' = [i \in {0, 1} |-> TRUE]
                       /\ UNCHANGED current_dialog
    /\ UNCHANGED <<fs, active_pane, args, ret, engine_vars>>

Next ==
    \/ KeyUp
    \/ KeyDown
    \/ HandleSelect
    \/ handle_copy
    \/ handle_move
    \/ handle_delete
    \/ DialogClose
    \/ DialogYes
    \/ Cancel
    \/ execute_copy_operation
    \/ copy_directory_recursive
    \/ copy_file_with_progress
    \/ execute_move_operation
    \/ execute_move_operation_remove
    \/ execute_delete_operation
    \/ execute_confirm_action

Spec == Init /\ [][Next]_vars

\* ------------------------------------------------- one pane over a changing
\* directory: the calls of PaneState while other programs create and remove
\* entries in the directory
PaneDir == <<"p">>

\* the names other programs create and remove
PaneNames == {"a", "B"}

PaneTree ==
    (PaneDir :> DirNode) @@ (<<"p", "a">> :> FileNode("a", 1))
    @@ (<<"p", "B">> :> FileNode("B", 1)) @@ (<<"p", "b">> :> DirNode)

\* a filesystem whose root directory is empty
EmptyTree == [q \in {} |-> DirNode]

ExampleDir == <<"e">>

\* the directory of test_select_by_pattern
ExampleTree ==
    (ExampleDir :> DirNode) @@ (<<"e", "a.txt">> :> FileNode("a", 1))
    @@ (<<"e", "b.txt">> :> FileNode("b", 1)) @@ (<<"e", "c.log">> :> FileNode("c", 1))

\* the patterns select_by_pattern is called with:
\* "*", "a", "*b", "B*", "a*a", "..", "*.txt"
PanePatterns ==
    {<<Star>>, <<97>>, <<Star, 98>>, <<66, Star>>, <<97, Star, 97>>, <<46, 46>>,
     <<Star, 46, 116, 120, 116>>}

PaneInit ==
    /\ fs \in {PaneTree, EmptyTree, ExampleTree}
    /\ \E l \in {Root, PaneDir, ExampleDir} : \E o \in Perms(read_dir(fs, l)) :
         /\ is_dir(fs, l)
         /\ left_pane = refresh(NewPane(l), fs, o, Len(o) + 1).pane
    /\ \E o \in Perms(read_dir(fs, Root)) :
         right_pane = refresh(NewPane(Root), fs, o, Len(o) + 1).pane
    /\ active_pane = 0
    /\ current_dialog = NoDialog
    /\ operation = NoOperation
    /\ pc = "idle"
    /\ idx = 1
    /\ stack = <<>>
    /\ cur = NoFile
    /\ result = "none"
    /\ written = 0
    /\ created = {}
    /\ fs0 = fs
    /\ cancelled_at = NotCancelled
    /\ last_refresh = [i \in {0, 1} |-> TRUE]
    /\ args = NoArgs
    /\ ret = NoRet

\* PaneState::refresh called on the active pane; ret keeps, with the result,
\* the cursor and the selection the pane had when refresh was called
PaneRefresh ==
    /\ pc = "idle"
    /\ \E c \in RefreshChoices(get_active_pane, fs) :
         LET r == refresh(get_active_pane, fs, c[1], c[2])
         IN  /\ SetActivePane(r.pane)
             /\ last_refresh' = [last_refresh EXCEPT
                    ![active_pane] = r.ok]
             /\ ret' = [fn |-> "refresh",
                        value |-> [ok |-> r.ok,
                                   cursor_index |-> get_active_pane.cursor_index,
                                   selected_indices |-> get_active_pane.selected_indices]]
    /\ UNCHANGED <<fs, active_pane, args, current_dialog, pc, engine_vars>>

\* another program creates a file or a directory in the directory
EnvCreate ==
    /\ pc = "idle"
    /\ \E n \in PaneNames, d \in BOOLEAN :
         /\ is_dir(fs, PaneDir)
         /\ ~exists(fs, join(PaneDir, n))
         /\ fs' = Put(fs, join(PaneDir, n), IF d THEN DirNode ELSE FileNode(n, 1))
    /\ UNCHANGED <<left_pane, right_pane, active_pane, args, ret, current_dialog, pc, engine_vars,
                   last_refresh>>

\* another program removes an entry of the directory
EnvRemove ==
    /\ pc = "idle"
    /\ \E n \in PaneNames :
         /\ exists(fs, join(PaneDir, n))
         /\ fs' = remove_all(fs, join(PaneDir, n))
    /\ UNCHANGED <<left_pane, right_pane, active_pane, args, ret, current_dialog, pc, engine_vars,
                   last_refresh>>

\* PaneState::select_all called on the active pane
SelectAll ==
    /\ pc = "idle"
    /\ SetActivePane(select_all(get_active_pane))
    /\ ret' = [fn |-> "select_all", value |-> 0]
    /\ UNCHANGED <<fs, active_pane, args, current_dialog, pc, engine_vars, last_refresh>>

\* PaneState::select_by_pattern called on the active pane
SelectByPattern(pattern) ==
    /\ pc = "idle"
    /\ LET r == select_by_pattern(get_active_pane, pattern)
       IN  /\ SetActivePane(r.pane)
           /\ ret' = [fn |-> "select_by_pattern", value |-> r.count]
    /\ UNCHANGED <<fs, active_pane, args, current_dialog, pc, engine_vars, last_refresh>>

SelectByAPattern == \E pattern \in PanePatterns : SelectByPattern(pattern)

PaneNext ==
    \/ PaneRefresh
    \/ EnvCreate
    \/ EnvRemove
    \/ KeyUp
    \/ KeyDown
    \/ HandleSelect
    \/ KeyHome
    \/ KeyEnd
    \/ SelectAll
    \/ SelectByAPattern

PaneSpec == PaneInit /\ [][PaneNext]_vars

\* ---------------------------------------------- functions called on their own
\* no application is running: the panes, the dialog and the operation are
\* as constructed, over an empty filesystem
NoAppOn(fsys) ==
    /\ fs = fsys
    /\ left_pane = NewPane(Root)
    /\ right_pane = NewPane(Root)
    /\ active_pane = 0
    /\ current_dialog = NoDialog
    /\ operation = NoOperation
    /\ pc = "idle"
    /\ idx = 1
    /\ stack = <<>>
    /\ cur = NoFile
    /\ result = "none"
    /\ written = 0
    /\ created = {}
    /\ fs0 = fsys
    /\ cancelled_at = NotCancelled
    /\ last_refresh = [i \in {0, 1} |-> TRUE]

NoApp == NoAppOn(EmptyTree)

app_vars == <<fs, left_pane, right_pane, active_pane, current_dialog, operation, pc, idx,
              stack, cur, result, written, created, fs0, cancelled_at, last_refresh>>

\* the strings of at most n chars of the set S
StringsUpTo(S, n) == UNION {[1..k -> S] : k \in 0..n}

\* ------------------------------------------------------ matches_glob_pattern
\* the chars of the names and patterns: 'a', 'b' and '*'
GlobChars == {97, 98, Star}

GlobInit ==
    /\ NoApp
    /\ \E name \in StringsUpTo(GlobChars, MaxLen), pattern \in StringsUpTo(GlobChars, MaxLen) :
         args = [fn |-> "matches_glob_pattern", name |-> name, pattern |-> pattern]
    /\ ret = NoRet

\* a call of matches_glob_pattern(name, pattern)
Call_matches_glob_pattern ==
    /\ args.fn = "matches_glob_pattern"
    /\ ret' = [fn |-> "matches_glob_pattern",
               value |-> matches_glob_pattern(args.name, args.pattern)]
    /\ UNCHANGED <<app_vars, args>>

GlobNext == Call_matches_glob_pattern

GlobSpec == GlobInit /\ [][GlobNext]_vars

\* ------------------------------------- is_supported_archive, create_archive_handler
\* the pieces the file names are made of: "a", ".", "zip", ".zip", ".ZIP",
\* ".tar", ".Tar", ".gz", ".tgz", ".bz2", ".tbz2", ".xz", ".txt"
NamePieces ==
    {<<97>>, <<Dot>>, Str_zip, <<Dot>> \o Str_zip, <<Dot, 90, 73, 80>>,
     <<Dot>> \o Str_tar, <<Dot, 84, 97, 114>>, <<Dot>> \o Str_gz, <<Dot>> \o Str_tgz,
     <<Dot>> \o Str_bz2, <<Dot>> \o Str_tbz2, <<Dot>> \o Str_xz, <<Dot, 116, 120, 116>>}

RECURSIVE Concat(_)
Concat(pieces) == IF pieces = <<>> THEN <<>> ELSE Head(pieces) \o Concat(Tail(pieces))

\* the file names: one to MaxPieces pieces, "." and ".." are no file names
FileNames ==
    {Concat(ps) : ps \in StringsUpTo(NamePieces, MaxPieces)} \ {<<>>, <<Dot>>, <<Dot, Dot>>}

ArchiveNameInit ==
    /\ NoApp
    /\ \E name \in FileNames : args = [fn |-> "archive_name", name |-> name]
    /\ ret = NoRet

\* a call of create_archive_handler(path) with a path whose file name is name
Call_create_archive_handler ==
    /\ args.fn = "archive_name"
    /\ ret' = [fn |-> "create_archive_handler", value |-> create_archive_handler(args.name)]
    /\ UNCHANGED <<app_vars, args>>

\* a call of core::is_supported_archive(path), as refresh makes it for
\* every file of the directory
Call_is_supported_archive ==
    /\ args.fn = "archive_name"
    /\ ret' = [fn |-> "is_supported_archive", value |-> is_supported_archive(args.name)]
    /\ UNCHANGED <<app_vars, args>>

\* a call of archive::is_supported_archive(path)
Call_archive_is_supported_archive ==
    /\ args.fn = "archive_name"
    /\ ret' = [fn |-> "archive::is_supported_archive",
               value |-> archive_is_supported_archive(args.name)]
    /\ UNCHANGED <<app_vars, args>>

ArchiveNameNext ==
    \/ Call_create_archive_handler
    \/ Call_is_supported_archive
    \/ Call_archive_is_supported_archive

ArchiveNameSpec == ArchiveNameInit /\ [][ArchiveNameNext]_vars

\* ------------------------------------------------------- the archive adapter
\* the member names: "d/", "d/r", "d/i/l", "d/i/", "r", "dr", "d", "a"
MemberNames ==
    {<<100, Slash>>, <<100, Slash, 114>>, <<100, Slash, 105, Slash, 108>>,
     <<100, Slash, 105, Slash>>, <<114>>, <<100, 114>>, <<100>>, <<97>>}

Member(name) == [name |-> name, is_dir |-> ends_with(name, <<Slash>>)]

\* the containers: at most MaxMembers members with different names, in
\* every stored order
Containers ==
    {[k \in DOMAIN ns |-> Member(ns[k])] :
        ns \in {s \in StringsUpTo(MemberNames, MaxMembers) :
                  \A i, j \in DOMAIN s : i # j => s[i] # s[j]}}

\* the virtual paths and member paths asked for: "", "d/", "d", "d/i/",
\* and the member names
AskedPaths == {<<>>, <<100, Slash>>, <<100>>, <<100, Slash, 105, Slash>>} \cup MemberNames

\* the paths extract_to_disk is asked to write to
OutputPaths == {<<"o">>, <<"o", "x">>}

ArchiveInit ==
    /\ NoApp
    /\ \E variant \in {"zip", "tar"}, members \in Containers, path \in AskedPaths,
          readable \in BOOLEAN :
         args = [fn |-> "archive", variant |-> variant, members |-> members, path |-> path,
                 readable |-> readable]
    /\ ret = NoRet

\* handler.list_entries(path)
Call_list_entries ==
    /\ args.fn = "archive"
    /\ ret' = [fn |-> "list_entries",
               value |-> list_entries(args.variant, args.members, args.path, args.readable)]
    /\ UNCHANGED <<app_vars, args>>

\* handler.extract_file(path, output) with an empty sink
Call_extract_file ==
    /\ args.fn = "archive"
    /\ ret' = [fn |-> "extract_file",
               value |-> extract_file(args.variant, args.members, args.path, args.readable)]
    /\ UNCHANGED <<app_vars, args>>

\* handler.extract_to_disk(path, output_path)
Call_extract_to_disk ==
    /\ args.fn = "archive"
    /\ \E output_path \in OutputPaths :
         LET r == extract_to_disk(args.variant, args.members, args.path, output_path, fs,
                                  args.readable)
         IN  /\ ret' = [fn |-> "extract_to_disk", value |-> r.ret]
             /\ fs' = r.fs
    /\ UNCHANGED <<left_pane, right_pane, active_pane, current_dialog, pc, engine_vars,
                   last_refresh, args>>

ArchiveNext ==
    \/ Call_list_entries
    \/ Call_extract_file
    \/ Call_extract_to_disk

ArchiveSpec == ArchiveInit /\ [][ArchiveNext]_vars

\* ------------------------------------------- create_directory and rename_file
\* the names asked for
NewNames == {"a", "B", "c"}

\* the directories create_directory is called with: the pane's directory
\* and a directory that does not exist
NewDirParents == {PaneDir, <<"p", "c", "c">>}

\* the paths rename_file is called with: the entries of the pane's
\* directory and the path of its ".." entry
OldPaths(fsys) == {join(PaneDir, n) : n \in read_dir(fsys, PaneDir)} \cup {Root}

FileOpInit ==
    /\ NoAppOn(PaneTree)
    /\ args = NoArgs
    /\ ret = NoRet

\* create_directory(path, name)
CreateDirectory(path, name, fail) ==
    LET r == create_directory(fs, path, name, fail)
    IN  /\ fs' = r.fs
        /\ ret' = [fn |-> "create_directory", value |-> [ok |-> r.ok, err |-> r.err, path |-> r.path]]
        /\ UNCHANGED <<left_pane, right_pane, active_pane, current_dialog, pc, engine_vars,
                       last_refresh, args>>

\* rename_file(old_path, new_name)
RenameFile(old_path, new_name, fail) ==
    LET r == rename_file(fs, old_path, new_name, fail)
    IN  /\ fs' = r.fs
        /\ ret' = [fn |-> "rename_file", value |-> [ok |-> r.ok, err |-> r.err, path |-> r.path]]
        /\ UNCHANGED <<left_pane, right_pane, active_pane, current_dialog, pc, engine_vars,
                       last_refresh, args>>

CreateADirectory ==
    \E path \in NewDirParents, name \in NewNames, fail \in BOOLEAN :
      CreateDirectory(path, name, fail)

RenameAFile ==
    \E old_path \in OldPaths(fs), new_name \in NewNames, fail \in BOOLEAN :
      RenameFile(old_path, new_name, fail)

FileOpNext ==
    \/ CreateADirectory
    \/ RenameAFile

FileOpSpec == FileOpInit /\ [][FileOpNext]_vars

\* ------------------------------------- the cursor and selection calls of
\* PaneState on their own: one call after another on a pane whose entries a
\* refresh left behind and whose public cursor_index and selected_indices
\* hold any values, the ones in test_navigation_bounds_checking included
\* the largest cursor_index a pane starts with
MaxCursor == 5

\* the largest viewport_height a call is given
MaxViewport == 5

\* pane_height: the terminal height less three rows, 0 on a small terminal
ViewportHeights == 0..MaxViewport

NavInit ==
    /\ fs \in {PaneTree, EmptyTree}
    /\ \E l \in {Root, PaneDir} : \E c \in RefreshChoices(NewPane(l), fs) :
         LET r == refresh(NewPane(l), fs, c[1], c[2])
         IN  /\ is_dir(fs, l)
             /\ \E cursor \in 0..MaxCursor, selected \in SUBSET (0..(Len(r.pane.entries) - 1)) :
                  left_pane = [r.pane EXCEPT !.cursor_index = cursor,
                                             !.selected_indices = selected]
             /\ last_refresh = [i \in {0, 1} |-> i = 1 \/ r.ok]
    /\ \E o \in Perms(read_dir(fs, Root)) :
         right_pane = refresh(NewPane(Root), fs, o, Len(o) + 1).pane
    /\ active_pane = 0
    /\ current_dialog = NoDialog
    /\ operation = NoOperation
    /\ pc = "idle"
    /\ idx = 1
    /\ stack = <<>>
    /\ cur = NoFile
    /\ result = "none"
    /\ written = 0
    /\ created = {}
    /\ fs0 = fs
    /\ cancelled_at = NotCancelled
    /\ args = NoArgs
    /\ ret = NoRet

\* a call of a PaneState method on the pane: ret keeps the viewport_height
\* given and the cursor and the selection the pane had when it was called
PaneCall(fn, viewport_height, pane) ==
    /\ left_pane' = pane
    /\ ret' = [fn |-> fn,
               value |-> [viewport_height |-> viewport_height,
                          cursor_index |-> left_pane.cursor_index,
                          selected_indices |-> left_pane.selected_indices]]
    /\ UNCHANGED <<fs, right_pane, active_pane, current_dialog, pc, engine_vars,
                   last_refresh, args>>

\* the viewport_height given to a method that does not read it
Unread == 0

Call_cursor_up == PaneCall("cursor_up", Unread, cursor_up(left_pane))

Call_cursor_down == PaneCall("cursor_down", Unread, cursor_down(left_pane))

Call_cursor_home == PaneCall("cursor_home", Unread, cursor_home(left_pane))

Call_cursor_end == PaneCall("cursor_end", Unread, cursor_end(left_pane))

Call_page_up ==
    \E viewport_height \in ViewportHeights :
      PaneCall("page_up", viewport_height, page_up(left_pane, viewport_height))

Call_page_down ==
    \E viewport_height \in ViewportHeights :
      PaneCall("page_down", viewport_height, page_down(left_pane, viewport_height))

Call_toggle_selection == PaneCall("toggle_selection", Unread, toggle_selection(left_pane))

\* the paths enter_directory is called with: the root, /p, the directory
\* /p/b, the file /p/a and /p/c, which does not exist
EnterPaths == {Root, PaneDir, <<"p", "b">>, <<"p", "a">>, <<"p", "c">>}

\* a call of enter_directory on the pane, as handle_enter and
\* handle_parent_directory make it; ret keeps new_path and the result
Call_enter_directory ==
    \E new_path \in EnterPaths :
      \E c \in RefreshChoices([left_pane EXCEPT !.current_path = new_path], fs) :
        LET r == enter_directory(left_pane, new_path, fs, c[1], c[2])
        IN  /\ left_pane' = r.pane
            /\ ret' = [fn |-> "enter_directory",
                       value |-> [viewport_height |-> Unread,
                                  cursor_index |-> left_pane.cursor_index,
                                  selected_indices |-> left_pane.selected_indices,
                                  new_path |-> new_path,
                                  ok |-> r.ok]]
            /\ last_refresh' = IF is_dir(fs, new_path)
                               THEN [last_refresh EXCEPT ![0] = r.ok]
                               ELSE last_refresh
            /\ UNCHANGED <<fs, right_pane, active_pane, current_dialog, pc, engine_vars, args>>

NavNext ==
    \/ Call_enter_directory
    \/ Call_cursor_up
    \/ Call_cursor_down
    \/ Call_cursor_home
    \/ Call_cursor_end
    \/ Call_page_up
    \/ Call_page_down
    \/ Call_toggle_selection

NavSpec == NavInit /\ [][NavNext]_vars

\* ------------------------------------------------------------ the file viewer
\* a FileViewer and the keys App::handle_key_event hands to it in Viewer
\* mode.  args holds the mode and the viewer of the application, ret the
\* last call of handle_key: its key, its visible_lines, its result and the
\* viewer as the call left it
\* the most lines a viewed file has
MaxLines == 4

\* the largest visible_lines a key is handled with
MaxVisible == 5

VisibleLines == 0..MaxVisible

\* FileViewer::new: the lines of the file (two lines of notice for a binary
\* file), the current line and the scroll offset at 0
NewViewer(n) == [lines |-> [k \in 1..n |-> "line"], current_line |-> 0, scroll_offset |-> 0]

\* FileViewer::scroll_up
scroll_up(viewer) ==
    IF viewer.current_line > 0
    THEN LET line == viewer.current_line - 1
         IN  [viewer EXCEPT !.current_line = line,
                            !.scroll_offset = IF line < @ THEN line ELSE @]
    ELSE viewer

\* FileViewer::scroll_down
scroll_down(viewer, visible_lines) ==
    IF viewer.current_line < saturating_sub(Len(viewer.lines), 1)
    THEN LET line == viewer.current_line + 1
         IN  [viewer EXCEPT !.current_line = line,
                            !.scroll_offset = IF line >= @ + visible_lines
                                              THEN line - visible_lines + 1
                                              ELSE @]
    ELSE viewer

\* the page of FileViewer::page_up and page_down
viewer_page_size(visible_lines) == Max(saturating_sub(visible_lines, 1), 1)

\* FileViewer::page_up
viewer_page_up(viewer, visible_lines) ==
    [viewer EXCEPT
        !.current_line = saturating_sub(@, viewer_page_size(visible_lines)),
        !.scroll_offset = saturating_sub(@, viewer_page_size(visible_lines))]

\* the scroll offset is not held back at the end of the file
viewer_page_down_past_end(viewer, visible_lines) ==
    [viewer EXCEPT
        !.current_line = Min(@ + viewer_page_size(visible_lines),
                             saturating_sub(Len(viewer.lines), 1)),
        !.scroll_offset = @ + viewer_page_size(visible_lines)]

\* FileViewer::page_down
viewer_page_down(viewer, visible_lines) ==
    [viewer EXCEPT
        !.current_line = Min(@ + viewer_page_size(visible_lines),
                             saturating_sub(Len(viewer.lines), 1)),
        !.scroll_offset = Min(@ + viewer_page_size(visible_lines),
                              saturating_sub(Len(viewer.lines), visible_lines))]

\* FileViewer::home
home(viewer) == [viewer EXCEPT !.current_line = 0, !.scroll_offset = 0]

\* FileViewer::end
end(viewer, visible_lines) ==
    [viewer EXCEPT !.current_line = saturating_sub(Len(viewer.lines), 1),
                   !.scroll_offset = saturating_sub(Len(viewer.lines), visible_lines)]

\* FileViewer::render, the content shown: the slice
\* lines[scroll_offset..end_line], which panics when scroll_offset is above
\* end_line
render(viewer, visible_lines) ==
    LET end_line == Min(viewer.scroll_offset + visible_lines, Len(viewer.lines))
    IN  IF viewer.lines = <<>>
        THEN [panic |-> FALSE, visible_content |-> <<>>]
        ELSE IF viewer.scroll_offset > end_line
        THEN [panic |-> TRUE, visible_content |-> <<>>]
        ELSE [panic |-> FALSE,
              visible_content |-> SubSeq(viewer.lines, viewer.scroll_offset + 1, end_line)]

\* the keys: the six the viewer acts on, the two that leave it and one of
\* the others
ViewerKeys == {"Up", "Down", "PageUp", "PageDown", "Home", "End", "F10", "Esc", "Tab"}

\* FileViewer::handle_key: the viewer after the call and the value returned
handle_key(viewer, key, visible_lines) ==
    IF key \in {"F10", "Esc"} THEN [continue |-> FALSE, viewer |-> viewer]
    ELSE [continue |-> TRUE,
          viewer |-> CASE key = "Up" -> scroll_up(viewer)
                       [] key = "Down" -> scroll_down(viewer, visible_lines)
                       [] key = "PageUp" -> viewer_page_up(viewer, visible_lines)
                       [] key = "PageDown" -> viewer_page_down(viewer, visible_lines)
                       [] key = "Home" -> home(viewer)
                       [] key = "End" -> end(viewer, visible_lines)
                       [] OTHER -> viewer]

\* the application has opened a file of 0 to MaxLines lines in the viewer
ViewerInit ==
    /\ NoApp
    /\ \E n \in 0..MaxLines :
         args = [fn |-> "viewer", mode |-> "Viewer", viewer |-> Some(NewViewer(n))]
    /\ ret = NoRet

\* handle_key_event in Viewer mode: the key goes to the viewer, and the
\* viewer is dropped when handle_key returns false
HandleViewerKey ==
    /\ args.fn = "viewer" /\ args.mode = "Viewer"
    /\ \E key \in ViewerKeys, visible_lines \in VisibleLines :
         LET r == handle_key(args.viewer[1], key, visible_lines)
         IN  /\ args' = IF r.continue
                        THEN [args EXCEPT !.viewer = Some(r.viewer)]
                        ELSE [args EXCEPT !.mode = "Normal", !.viewer = None]
             /\ ret' = [fn |-> "handle_key",
                        value |-> [key |-> key, visible_lines |-> visible_lines,
                                   continue |-> r.continue, viewer |-> r.viewer]]
    /\ UNCHANGED app_vars

ViewerNext == HandleViewerKey

ViewerSpec == ViewerInit /\ [][ViewerNext]_vars

\* ------------------------------------------------------------ the properties
Pane(i) == IF i = 0 THEN left_pane ELSE right_pane

CopyPhase == {"copy_loop", "dir_loop", "file_loop"}

Running == CopyPhase \cup {"move_check", "move_remove", "delete_loop"}

Sources == {operation.source_files[k] : k \in DOMAIN operation.source_files}

\* execute_operation has returned
Returned == operation.operation_type # "None" /\ pc \notin Running

RECURSIVE SumFileSizes(_, _)
SumFileSizes(fsys, files) ==
    IF files = {} THEN 0
    ELSE LET r == CHOOSE r \in files : TRUE
         IN  fsys[r].size + SumFileSizes(fsys, files \ {r})

\* the bytes held by the destination files this execution created
CreatedSize(fsys) == SumFileSizes(fsys, created \cap DOMAIN fsys)

\* where source k is copied to
DestOf(k) == join(operation.destination, file_name(operation.source_files[k]))

\* the whole tree of source k, as it was at construction, is at its destination
PresentAtDest(k) ==
    LET src == operation.source_files[k]
    IN  \A q \in DOMAIN fs0 :
          IsPrefix(src, q) =>
            LET q2 == DestOf(k) \o SubSeq(q, Len(src) + 1, Len(q))
            IN  q2 \in DOMAIN fs /\ fs[q2] = fs0[q]

\* this execution has created no file for source k
NothingCreatedFor(k) == \A c \in created : ~IsPrefix(DestOf(k), c)

\* C1: a Copy that ran to its end uncancelled and without error has created
\* files whose sizes sum to total_size, and processed_size = total_size
C1_CopyRoundTrip ==
    (operation.operation_type = "Copy" /\ Returned /\ result = "ok" /\ ~operation.cancelled)
    => /\ operation.completed
       /\ CreatedSize(fs) = operation.total_size
       /\ operation.processed_size = operation.total_size


\* ---- Move: removal of the originals
MoveReturned == operation.operation_type = "Move" /\ Returned

AllSourcesRemoved == \A p \in Sources : ~exists(fs, p)

AllSourcesExist == \A p \in Sources : exists(fs, p)

\* the loop of execute_copy_operation ended with cancelled still false
CopyRanUncancelled == operation.completed /\ cancelled_at.pc \notin CopyPhase

\* cancelled was false when execute_move_operation tested it (core.rs:344)
UncancelledAtTest == operation.completed /\ cancelled_at.pc \notin CopyPhase \cup {"move_check"}

C3_ErrorLeavesNotCompleted ==
    (Returned /\ result = "err") => ~operation.completed

\* ---- cancellation between two sources
CancelledAfterFirstSource ==
    /\ operation.operation_type \in {"Copy", "Move"}
    /\ Len(operation.source_files) >= 2
    /\ cancelled_at = [pc |-> "copy_loop", idx |-> 2]

LaterSourceNonEmpty ==
    \E k \in 2..Len(operation.source_files) : get_path_size(fs0, operation.source_files[k]) > 0

\* C4: cancelled set after the first source was copied and before the next
\* one starts: Ok, completed, cancelled, processed_size < total_size, the
\* first source whole at the destination, nothing created for later sources
C4_CancelBetweenSources ==
    (CancelledAfterFirstSource /\ Returned) =>
        /\ result = "ok"
        /\ operation.completed
        /\ operation.cancelled
        /\ LaterSourceNonEmpty => operation.processed_size < operation.total_size
        /\ PresentAtDest(1)
        /\ \A k \in 2..Len(operation.source_files) : NothingCreatedFor(k)

\* C5: a Delete that ran to its end uncancelled has processed_size = total_size
C5_DeleteProgressReachesTotal ==
    (operation.operation_type = "Delete" /\ Returned /\ result = "ok" /\ ~operation.cancelled)
    => operation.processed_size = operation.total_size

\* ---- the cancelled flag
\* a step that is the holder of the operation setting the flag
IsCancelStep ==
    /\ operation' = [operation EXCEPT !.cancelled = TRUE]
    /\ UNCHANGED <<fs, pc, idx, stack, cur, result, created>>

\* nothing is started, read, written or removed in this step
NothingDone ==
    /\ idx' = idx
    /\ operation'.current_file = operation.current_file
    /\ operation'.processed_size = operation.processed_size
    /\ fs' = fs

\* C7 as stated: execution never changes cancelled, and once it is true no
\* further source item is started, no further chunk is read and what was
\* written stays, in every phase of the execution
C7_CancelledStopsAllWork ==
    [][(pc \in Running) =>
         /\ ~IsCancelStep => operation'.cancelled = operation.cancelled
         /\ operation.cancelled => NothingDone]_vars

\* C7 amended: the same, for the copy phase, the test that follows it in a
\* Move and the loop of Delete; the removal loop of a Move, entered with
\* cancelled false, is not stopped by the flag
C7_CancelledStopsCopyAndDelete ==
    [][(pc \in Running) =>
         /\ ~IsCancelStep => operation'.cancelled = operation.cancelled
         /\ (operation.cancelled /\ pc # "move_remove") => NothingDone]_vars

\* a copy cancelled in the middle of a file has returned, the part written
\* still at the destination
C7_Witness ==
    /\ Returned /\ result = "ok" /\ operation.cancelled
    /\ cancelled_at.pc = "file_loop"
    /\ operation.processed_size = BufferSize
    /\ CreatedSize(fs) = BufferSize

\* C8: processed_size never decreases during an execution and, for Copy and
\* Move, never exceeds the bytes written so far to the destination files
C8_ProcessedMonotoneAndBounded ==
    [][/\ (operation.operation_type # "None" /\ operation'.source_files = operation.source_files)
            => operation'.processed_size >= operation.processed_size
       /\ operation'.operation_type \in {"Copy", "Move"}
            => operation'.processed_size <= written']_vars

\* a cancelled copy has ended with processed_size short of total_size
C8_Witness ==
    /\ Returned /\ operation.operation_type \in {"Copy", "Move"}
    /\ operation.cancelled /\ operation.completed
    /\ operation.processed_size > 0
    /\ operation.processed_size < operation.total_size

\* ---- refresh
\* C6: a refresh that fails leaves the entries of the pane as they were
C6_FailedRefreshKeepsEntries ==
    [][\A i \in {0, 1} : ~last_refresh'[i] => Pane(i)'.entries = Pane(i).entries]_vars

NotParent(pane) == {k \in DOMAIN pane.entries : pane.entries[k].name # ".."}

\* C9: after a successful refresh away from the root the first entry is the
\* parent entry "..", a directory; at the root there is no ".." entry
C9_ParentEntryFirst ==
    \A i \in {0, 1} :
      last_refresh[i] =>
        LET pane == Pane(i)
        IN  IF pane.current_path # Root
            THEN /\ Len(pane.entries) >= 1
                 /\ pane.entries[1].name = ".."
                 /\ pane.entries[1].is_dir
            ELSE NotParent(pane) = DOMAIN pane.entries

\* the pane has been refreshed after "a" was removed from its directory, and
\* the pane at the root lists the directory without a parent entry
C9_Witness ==
    /\ last_refresh[0] /\ left_pane.current_path = PaneDir
    /\ ~exists(fs, <<"p", "a">>)
    /\ [k \in DOMAIN left_pane.entries |-> left_pane.entries[k].name] = <<"..", "b", "B">>
    /\ last_refresh[1] /\ right_pane.current_path = Root
    /\ [k \in DOMAIN right_pane.entries |-> right_pane.entries[k].name] = <<"p">>

LowerName(e) == to_lowercase(Bytes(e.name))

\* C10: after a successful refresh, among the entries other than "..",
\* directories precede files, and within each kind the lower-cased names ascend
C10_EntriesSorted ==
    \A i \in {0, 1} :
      last_refresh[i] =>
        LET pane == Pane(i)
        IN  \A j, k \in NotParent(pane) :
              j < k =>
                /\ pane.entries[k].is_dir => pane.entries[j].is_dir
                /\ pane.entries[j].is_dir = pane.entries[k].is_dir
                     => cmp(LowerName(pane.entries[j]), LowerName(pane.entries[k])) \in {"Less", "Equal"}

\* the pane lists, after a refresh, the directory "B" that replaced the file
\* "B", before the file "a"
C10_Witness ==
    /\ last_refresh[0] /\ left_pane.current_path = PaneDir
    /\ Len(left_pane.entries) = 4
    /\ is_dir(fs, <<"p", "B">>)
    /\ \E k \in 2..3 : left_pane.entries[k].name = "B" /\ left_pane.entries[k].is_dir
    /\ left_pane.entries[4].name = "a"

\* the cursor is the index of an entry
ValidCursor(pane) == pane.cursor_index \in 0..(Len(pane.entries) - 1)

\* C11 as stated: cursor_up and cursor_down keep a valid cursor valid, and
\* cursor_home and cursor_end produce the valid index 0, respectively
\* entries.len()-1, from any cursor
C11_CursorAlwaysValid ==
    [][/\ (KeyUp \/ KeyDown) /\ ValidCursor(get_active_pane) => ValidCursor(get_active_pane')
       /\ KeyHome => get_active_pane'.cursor_index = 0 /\ ValidCursor(get_active_pane')
       /\ KeyEnd => /\ get_active_pane'.cursor_index = Len(get_active_pane.entries) - 1
                    /\ ValidCursor(get_active_pane')]_vars

\* C11: cursor_up and cursor_down keep a valid cursor valid; on a pane with
\* at least one entry cursor_home and cursor_end produce the valid index 0,
\* respectively entries.len()-1, from any cursor, also one out of range; on
\* a pane without entries both produce 0, which is the index of no entry
C11_CursorValidUnlessEmpty ==
    [][/\ (KeyUp \/ KeyDown) /\ ValidCursor(get_active_pane) => ValidCursor(get_active_pane')
       /\ KeyHome => /\ get_active_pane'.cursor_index = 0
                     /\ get_active_pane.entries # <<>> => ValidCursor(get_active_pane')
       /\ KeyEnd => IF get_active_pane.entries # <<>>
                    THEN /\ get_active_pane'.cursor_index = Len(get_active_pane.entries) - 1
                         /\ ValidCursor(get_active_pane')
                    ELSE get_active_pane'.cursor_index = 0]_vars

\* cursor_end was called after a refresh that failed and left fewer entries
\* than there were, on a pane that has entries
C11_Witness ==
    /\ ret.fn = "cursor_end" /\ ~last_refresh[active_pane]
    /\ get_active_pane.entries # <<>>
    /\ get_active_pane.cursor_index = Len(get_active_pane.entries) - 1

\* the 0-based indices of the entries of pane that are not ".."
NotParentIndices(pane) == {i \in 0..(Len(pane.entries) - 1) : pane.entries[i + 1].name # ".."}

HasParentEntry(pane) == \E k \in DOMAIN pane.entries : pane.entries[k].name = ".."

\* C12: select_all makes selected_indices the set of the indices of the
\* entries other than "..", whatever was selected before: N-1 indices of N
\* entries where ".." is listed, N where it is not, and never the index of ".."
C12_SelectAllButParent ==
    [][SelectAll =>
        LET pane == get_active_pane'
            N == Len(pane.entries)
        IN  /\ pane.selected_indices = NotParentIndices(pane)
            /\ Cardinality(pane.selected_indices) = IF HasParentEntry(pane) THEN N - 1 ELSE N
            /\ \A i \in pane.selected_indices : pane.entries[i + 1].name # ".."
            /\ pane.entries = get_active_pane.entries
            /\ pane.cursor_index = get_active_pane.cursor_index]_vars

\* select_all was called on a pane listing ".." and three entries
C12_Witness ==
    /\ ret.fn = "select_all"
    /\ get_active_pane.current_path = PaneDir /\ Len(get_active_pane.entries) = 4
    /\ get_active_pane.selected_indices = {1, 2, 3}

\* the position of the only '*' of a pattern
StarAt(pattern) == CHOOSE k \in DOMAIN pattern : pattern[k] = Star

\* the glob matching of patterns with at most one '*'
GlobMatches(name, pattern) ==
    IF pattern = <<Star>> THEN TRUE
    ELSE IF Cardinality({k \in DOMAIN pattern : pattern[k] = Star}) = 1
    THEN LET prefix == SubSeq(pattern, 1, StarAt(pattern) - 1)
             suffix == SubSeq(pattern, StarAt(pattern) + 1, Len(pattern))
         IN  \E i \in 0..Len(name) : \E j \in i..Len(name) :
               /\ SubSeq(name, 1, i) = prefix
               /\ SubSeq(name, j + 1, Len(name)) = suffix
    ELSE name = pattern

\* the entries other than ".." whose name matches the pattern
MatchingIndices(pane, pattern) ==
    {i \in NotParentIndices(pane) : GlobMatches(Bytes(pane.entries[i + 1].name), pattern)}

\* C13: select_by_pattern(p) adds the indices of the entries other than ".."
\* whose name matches p, removes none, and returns the number of those
\* entries, the ones selected before included
C13_SelectByPatternAddsMatches ==
    [][\A pattern \in PanePatterns :
         SelectByPattern(pattern) =>
           /\ get_active_pane'.selected_indices =
                get_active_pane.selected_indices \cup MatchingIndices(get_active_pane, pattern)
           /\ ret'.value = Cardinality(MatchingIndices(get_active_pane, pattern))]_vars

\* C14: "*" matches every name; prefix*suffix matches exactly the names made
\* of the prefix, any string and the suffix; a pattern without '*' or with
\* two or more matches only the name equal to it
C14_GlobMatching ==
    ret.fn = "matches_glob_pattern" => (ret.value <=> GlobMatches(args.name, args.pattern))

\* the name ends, case-insensitively, with "." and one of the extensions
EndsWithExtension(name, extensions) ==
    \E e \in extensions : ends_with(to_lowercase(name), <<Dot>> \o e)

Str_tar_gz == Str_tar \o <<Dot>> \o Str_gz

Str_tar_bz2 == Str_tar \o <<Dot>> \o Str_bz2

TarExtensions == {Str_tar, Str_tar_gz, Str_tgz, Str_tar_bz2, Str_tbz2}

\* C15: create_archive_handler gives the zip variant for names ending in
\* .zip, the tar variant for names ending in .tar, .tar.gz, .tgz, .tar.bz2 or
\* .tbz2, whatever the case, and an unsupported-format error for all others
C15_HandlerByExtension ==
    ret.fn = "create_archive_handler" =>
      ret.value = IF EndsWithExtension(args.name, {Str_zip}) THEN "ZipHandler"
                  ELSE IF EndsWithExtension(args.name, TarExtensions) THEN "TarHandler"
                  ELSE "Unsupported archive format"

\* C16: is_archive is true exactly for the names ending, whatever the case,
\* in .zip, .tar, .tar.gz, .tgz, .tar.bz2 or .tbz2
C16_IsArchiveByExtension ==
    ret.fn = "is_supported_archive" =>
      (ret.value <=> EndsWithExtension(args.name, {Str_zip} \cup TarExtensions))

\* the virtual directory a virtual path names, with its trailing '/'
VirtualDir(path) ==
    IF path = <<>> \/ ends_with(path, <<Slash>>) THEN path ELSE path \o <<Slash>>

\* the direct children of a virtual directory: for every member below the
\* directory the first component of the rest of its name, a directory when
\* the name goes on after that component
DirectChildren(members, path) ==
    LET dir == VirtualDir(path)
        below == {SubSeq(members[k].name, Len(dir) + 1, Len(members[k].name)) :
                    k \in {j \in DOMAIN members : starts_with(members[j].name, dir)}} \ {<<>>}
    IN  {[name |-> split(rest, Slash)[1], is_dir |-> contains(rest, Slash)] : rest \in below}

Listed(entries) == {[name |-> entries[k].name, is_dir |-> entries[k].is_dir] : k \in DOMAIN entries}

\* C17: list_entries returns exactly the direct children of the virtual
\* directory, the directories that are only implied by deeper members too
C17_ListsDirectChildren ==
    ret.fn = "list_entries" /\ ret.value.ok =>
      Listed(ret.value.entries) = DirectChildren(args.members, args.path)

MemberMissing == args.fn = "archive" /\ ~HasMember(args.members, args.path)

\* C18: extract_file and extract_to_disk asked for a member that is not in
\* the container return an error, an archive error when the container could
\* be read, write nothing to the sink and create no file and no directory
C18_MissingMemberNoEffect ==
    ret.fn \in {"extract_file", "extract_to_disk"} /\ MemberMissing =>
      /\ ~ret.value.ok
      /\ args.readable => ret.value.err = "Archive"
      /\ ret.value.output = <<>>
      /\ fs = EmptyTree

\* extract_to_disk was asked for "d/r" of a readable container that holds
\* other members only
C18_Witness ==
    /\ ret.fn = "extract_to_disk" /\ MemberMissing /\ args.readable
    /\ args.path = <<100, Slash, 114>> /\ Len(args.members) = MaxMembers
    /\ ~ret.value.ok

\* the entries of the pane other than ".." are the entries of its directory
\* in the filesystem, with their kinds
EntriesReflect(pane, fsys) ==
    /\ is_dir(fsys, pane.current_path)
    /\ {pane.entries[k].name : k \in NotParent(pane)} = read_dir(fsys, pane.current_path)
    /\ \A k \in NotParent(pane) : pane.entries[k].is_dir = is_dir(fsys, pane.entries[k].path)

\* the confirmed operation has executed successfully and the application
\* is waiting for the next key event
OperationSucceeded == operation.operation_type # "None" /\ result = "ok" /\ pc = "idle"

\* C19: when a confirmed Copy, Move or Delete has executed successfully,
\* both panes have been refreshed by the time the next key event is
\* handled: the entries of each are those of its directory
C19_BothPanesRefreshed ==
    OperationSucceeded => \A i \in {0, 1} : EntriesReflect(Pane(i), fs)

\* C20: create_directory fails with a file-operation error when the name
\* is taken, rename_file fails with one when the new name is taken in the
\* parent directory, and neither changes the filesystem then
C20_ExistingNameRefused ==
    [][/\ \A path \in NewDirParents, name \in NewNames, fail \in BOOLEAN :
            CreateDirectory(path, name, fail) /\ exists(fs, join(path, name)) =>
              ~ret'.value.ok /\ ret'.value.err = "FileOperation" /\ fs' = fs
       /\ \A old_path \in OldPaths(fs) \ {Root}, new_name \in NewNames, fail \in BOOLEAN :
            RenameFile(old_path, new_name, fail)
              /\ exists(fs, join(parent(old_path)[1], new_name)) =>
              ~ret'.value.ok /\ ret'.value.err = "FileOperation" /\ fs' = fs]_vars

\* rename_file has refused the new name "a", the name of a file of the
\* directory: the file is still there as it was, and so is the directory "b"
C20_Witness ==
    /\ ret.fn = "rename_file" /\ ~ret.value.ok /\ ret.value.err = "FileOperation"
    /\ ret.value.path = <<"p", "a">>
    /\ is_file(fs, <<"p", "a">>) /\ fs[<<"p", "a">>] = PaneTree[<<"p", "a">>]
    /\ is_dir(fs, <<"p", "b">>)

\* ---- the panes after a failed operation
\* the confirmed operation has returned an error and the application is
\* waiting for the next key event
OperationFailed == operation.operation_type # "None" /\ result = "err" /\ pc = "idle"

\* every entry the pane lists, ".." aside, is in the filesystem
ListsOnlyExisting(pane, fsys) ==
    \A k \in NotParent(pane) : exists(fsys, pane.entries[k].path)

\* C21: when a confirmed Copy, Move or Delete has returned an error, the
\* panes have been refreshed by the time the next key event is handled: no
\* pane lists an entry that the failed operation removed
C21_PanesRefreshedAfterError ==
    OperationFailed => \A i \in {0, 1} : ListsOnlyExisting(Pane(i), fs)

\* ---- a removal that fails in a Move
\* the copy phase of a Move ran to its end and the removal loop returned an
\* error at source idx
MoveRemovalFailed == MoveReturned /\ result = "err" /\ operation.completed

\* C22: when the removal of source idx fails in a Move, the error is what
\* the execution returns, the sources before idx are gone, the sources after
\* idx are still on disk and every file the copy phase created is in place
C22_RemovalFailureStopsMove ==
    MoveRemovalFailed =>
        /\ idx \in DOMAIN operation.source_files
        /\ \A k \in 1..(idx - 1) : ~exists(fs, operation.source_files[k])
        /\ \A k \in (idx + 1)..Len(operation.source_files) :
             exists(fs, operation.source_files[k])
        /\ \A c \in created : is_file(fs, c)

\* ---- the progress fields when an execution fails
\* the step in which execute_operation returns an error
ErrorStep == pc \in Running /\ result # "err" /\ result' = "err"

\* the position in source_files of the source the execution is working on:
\* the loop of execute_copy_operation has moved on to the next position
\* once it has called copy_directory_recursive or copy_file_with_progress
CurrentSource == IF pc \in {"dir_loop", "file_loop"} THEN idx - 1 ELSE idx

\* the step works on source k, whose name current_file holds after it
WorksOnNamed(k) ==
    /\ k \in DOMAIN operation.source_files
    /\ file_name(operation.source_files[k]) # "none"
    /\ operation'.current_file = file_name(operation.source_files[k])

\* C23: the sources are taken in the order of source_files; a step that
\* changes the filesystem for a source, and the step that returns an error
\* while a source is processed, leave current_file equal to the name of that
\* source; the step that returns an error leaves processed_size as it was
C23_ProgressKeptOnError ==
    [][(pc \in Running) =>
         /\ idx' \in {idx, idx + 1} \/ (pc = "move_check" /\ idx' = 1)
         /\ (fs' # fs /\ pc # "move_remove") => WorksOnNamed(CurrentSource)
         /\ ErrorStep =>
              /\ WorksOnNamed(CurrentSource)
              /\ operation'.processed_size = operation.processed_size]_vars

\* ---- a Delete that is cancelled
\* cancelled was set in the loop of a Delete when the sources before
\* cancelled_at.idx had been removed, at least one of them
DeleteCancelledAfterRemoval ==
    /\ operation.operation_type = "Delete"
    /\ cancelled_at.pc = "delete_loop" /\ cancelled_at.idx >= 2

\* C24: a Delete cancelled after source k was removed removes no source
\* after k: when it has returned it has returned Ok with completed true,
\* and every source after k is on disk
C24_CancelledDeleteKeepsRest ==
    (DeleteCancelledAfterRemoval /\ Returned) =>
        /\ result = "ok" /\ operation.completed
        /\ \A k \in cancelled_at.idx..Len(operation.source_files) :
             exists(fs, operation.source_files[k])

\* ---- cursor and selection across a refresh
\* C25: a refresh that returns Ok leaves cursor_index as it was when that is
\* below the new entries.len() and sets it to 0 otherwise, and leaves in
\* selected_indices exactly the indices it held that are below the new
\* entries.len()
C25_RefreshClampsCursorAndSelection ==
    [][(ret'.fn = "refresh" /\ ret'.value.ok /\ PaneRefresh) =>
         LET old == get_active_pane
             new == get_active_pane'
             len == Len(new.entries)
         IN  /\ new.cursor_index = IF old.cursor_index < len THEN old.cursor_index ELSE 0
             /\ new.selected_indices = {i \in old.selected_indices : i < len}]_vars

\* a refresh has returned Ok on a directory that lost its last entry: the
\* pane was called with the cursor on index 3 and indices 1 and 3 selected,
\* and now lists three entries, the cursor on 0 and index 1 selected
C25_Witness ==
    /\ ret.fn = "refresh" /\ ret.value.ok
    /\ ret.value.cursor_index = 3 /\ ret.value.selected_indices = {1, 3}
    /\ Len(left_pane.entries) = 3
    /\ left_pane.cursor_index = 0 /\ left_pane.selected_indices = {1}

\* ---- a cursor above the last entry
\* cursor_index is above entries.len()-1
AboveLast(pane) == pane.cursor_index > Len(pane.entries) - 1

\* C26 as stated: from a cursor_index above entries.len()-1, cursor_down
\* leaves it unchanged and cursor_up decreases it by one, neither of them
\* nor page_up bringing it into range; cursor_home, cursor_end and page_down
\* bring it into range
C26_OnlyHomeEndPageDownCorrect ==
    [][AboveLast(left_pane) =>
         /\ Call_cursor_down => /\ left_pane'.cursor_index = left_pane.cursor_index
                                /\ ~ValidCursor(left_pane')
         /\ Call_cursor_up => /\ left_pane'.cursor_index = left_pane.cursor_index - 1
                              /\ ~ValidCursor(left_pane')
         /\ Call_page_up => ~ValidCursor(left_pane')
         /\ (Call_cursor_home \/ Call_cursor_end \/ Call_page_down)
              => ValidCursor(left_pane')]_vars

\* C26 amended: on a pane with at least one entry and cursor_index above
\* entries.len()-1, cursor_down leaves it unchanged; cursor_up decreases it
\* by one and page_up by the page size, without clamping, so that the result
\* is in range exactly when it lands at or below entries.len()-1;
\* cursor_home, cursor_end and page_down bring it into range.  On a pane
\* with no entries cursor_down leaves it unchanged, cursor_up decreases it by
\* one unless it is 0, and cursor_home, cursor_end and page_down set it to 0.
C26_AboveLastCorrection ==
    [][LET cursor == left_pane.cursor_index
           len    == Len(left_pane.entries)
       IN  AboveLast(left_pane) =>
             /\ Call_cursor_down => left_pane'.cursor_index = cursor
             /\ Call_cursor_up =>
                  /\ left_pane'.cursor_index = IF cursor = 0 THEN 0 ELSE cursor - 1
                  /\ ValidCursor(left_pane') <=> (len > 0 /\ cursor = len)
             /\ Call_page_up =>
                  ValidCursor(left_pane') <=>
                    (len > 0 /\ cursor - page_size(ret'.value.viewport_height) <= len - 1)
             /\ (Call_cursor_home \/ Call_cursor_end \/ Call_page_down) =>
                  IF len > 0 THEN ValidCursor(left_pane') ELSE left_pane'.cursor_index = 0]_vars

\* cursor_down has been called on a pane of four entries with the cursor on
\* 4, above the last entry: the cursor is still on 4
C26_Witness ==
    /\ ret.fn = "cursor_down" /\ ret.value.cursor_index = 4
    /\ Len(left_pane.entries) = 4
    /\ left_pane.cursor_index = 4

\* ---- paging
\* p = max(1, viewport_height - 2), in the integers
PageStep(viewport_height) == IF viewport_height - 2 > 1 THEN viewport_height - 2 ELSE 1

\* C27: page_up sets cursor_index to max(0, cursor_index - p) and page_down
\* sets it to min(cursor_index + p, entries.len()-1), 0 if entries is empty,
\* where p = max(1, viewport_height - 2), which is 1 for the viewport
\* heights 0, 1, 2 and 3
C27_PageMovesByPageSize ==
    [][LET cursor == left_pane.cursor_index
           len    == Len(left_pane.entries)
           height == ret'.value.viewport_height
           p      == PageStep(height)
       IN  /\ Call_page_up =>
                /\ height \in 0..3 => p = 1
                /\ left_pane'.cursor_index = IF cursor - p > 0 THEN cursor - p ELSE 0
           /\ Call_page_down =>
                /\ height \in 0..3 => p = 1
                /\ left_pane'.cursor_index =
                     IF len = 0 THEN 0
                     ELSE IF cursor + p < len - 1 THEN cursor + p ELSE len - 1]_vars

\* page_down has been called with viewport_height 0 on a pane of four
\* entries with the cursor on 1: the cursor is on 2, one entry further
C27_Witness ==
    /\ ret.fn = "page_down" /\ ret.value.viewport_height = 0
    /\ ret.value.cursor_index = 1
    /\ Len(left_pane.entries) = 4
    /\ left_pane.cursor_index = 2

\* ---- toggle_selection
\* C28: toggle_selection flips the membership of cursor_index in
\* selected_indices when cursor_index < entries.len() and changes nothing
\* otherwise; the membership of every other index, the cursor and the
\* entries stay as they were, and a second call gives back the selection
\* the first one was called on
C28_ToggleFlipsCursorIndex ==
    [][Call_toggle_selection =>
         LET cursor == left_pane.cursor_index
             old    == left_pane.selected_indices
             new    == left_pane'.selected_indices
         IN  /\ IF cursor < Len(left_pane.entries)
                THEN (cursor \in new) <=> (cursor \notin old)
                ELSE left_pane' = left_pane
             /\ \A i \in (old \cup new) \ {cursor} : (i \in new) <=> (i \in old)
             /\ left_pane'.cursor_index = cursor
             /\ left_pane'.entries = left_pane.entries
             /\ left_pane'.current_path = left_pane.current_path
             /\ left_pane'.scroll_offset = left_pane.scroll_offset
             /\ ret.fn = "toggle_selection" => new = ret.value.selected_indices]_vars

\* toggle_selection has been called on a pane of four entries with the
\* cursor on 2 and index 1 selected: the indices 1 and 2 are selected
C28_Witness ==
    /\ ret.fn = "toggle_selection"
    /\ ret.value.cursor_index = 2 /\ ret.value.selected_indices = {1}
    /\ left_pane.cursor_index = 2 /\ left_pane.selected_indices = {1, 2}
    /\ Len(left_pane.entries) = 4

\* ---- what navigation leaves alone
\* a call of one of the six navigation methods
NavigationCall ==
    \/ Call_cursor_up \/ Call_cursor_down \/ Call_page_up \/ Call_page_down
    \/ Call_cursor_home \/ Call_cursor_end

\* C30: a navigation call changes nothing of the pane but cursor_index:
\* scroll_offset, selected_indices, entries and current_path stay as they
\* were
C30_NavigationMovesOnlyCursor ==
    [][NavigationCall =>
         /\ left_pane'.scroll_offset = left_pane.scroll_offset
         /\ left_pane'.selected_indices = left_pane.selected_indices
         /\ left_pane'.entries = left_pane.entries
         /\ left_pane'.current_path = left_pane.current_path]_vars

\* page_up has been called with viewport_height 5 on a pane of four entries
\* with the cursor on 5 and the indices 0 and 3 selected: the cursor is on
\* 2, the selection and scroll_offset are as they were
C30_Witness ==
    /\ ret.fn = "page_up" /\ ret.value.viewport_height = 5
    /\ ret.value.cursor_index = 5 /\ ret.value.selected_indices = {0, 3}
    /\ Len(left_pane.entries) = 4
    /\ left_pane.cursor_index = 2
    /\ left_pane.selected_indices = {0, 3}
    /\ left_pane.scroll_offset = 0

\* ---- the names list_entries returns
\* C29: the list list_entries returns holds no two entries with the same
\* name, whatever the members of the container and the virtual path
C29_ListedNamesDistinct ==
    (ret.fn = "list_entries" /\ ret.value.ok) =>
        \A i, j \in DOMAIN ret.value.entries :
            i # j => ret.value.entries[i].name # ret.value.entries[j].name

\* ---- the parent entry as a source
\* C31: no confirmed Copy, Move or Delete has among its sources the path of
\* the ".." entry, the parent of the directory of the active pane
C31_ParentNeverASource ==
    operation.operation_type # "None" =>
        \A k \in DOMAIN operation.source_files :
            Some(operation.source_files[k]) # parent(get_active_pane.current_path)

\* ---- the sources of a Copy
\* everything at or under source k is in the filesystem as it was when the
\* operation was built
SourceIntact(k) ==
    \A q \in DOMAIN fs0 :
        IsPrefix(operation.source_files[k], q) => q \in DOMAIN fs /\ fs[q] = fs0[q]

\* C32: during and after a Copy every source is on disk with the content it
\* had, whatever the destination directory
C32_CopyLeavesSourcesIntact ==
    operation.operation_type = "Copy" =>
        \A k \in DOMAIN operation.source_files : SourceIntact(k)

\* ---- the data of a Move
\* the whole original content of source k, as it was when the operation was
\* built, is in the filesystem under the root `at`
ContentAt(k, at) ==
    LET src == operation.source_files[k]
    IN  \A q \in DOMAIN fs0 :
            IsPrefix(src, q) =>
                LET p == at \o SubSeq(q, Len(src) + 1, Len(q))
                IN  p \in DOMAIN fs /\ fs[p] = fs0[q]

\* C33: at every moment of a Move the whole content of each source is at its
\* original path or at destination/name
C33_MoveKeepsContentSomewhere ==
    operation.operation_type = "Move" =>
        \A k \in DOMAIN operation.source_files :
            \/ ContentAt(k, operation.source_files[k])
            \/ ContentAt(k, DestOf(k))

\* C33: after a Move has returned Ok uncancelled the whole original content of
\* each source is at destination/name
C33_MoveEndsWithContentAtDestination ==
    (MoveReturned /\ OperationSucceeded /\ ~operation.cancelled) =>
        \A k \in DOMAIN operation.source_files : ContentAt(k, DestOf(k))

\* ---- termination of a transfer
\* execute_operation runs on the thread that called it, statement after
\* statement
Transfer ==
    \/ execute_copy_operation
    \/ copy_directory_recursive
    \/ copy_file_with_progress
    \/ execute_move_operation
    \/ execute_move_operation_remove

\* the application when nobody sets the cancelled flag of the operation
TransferNext ==
    \/ KeyUp
    \/ KeyDown
    \/ HandleSelect
    \/ handle_copy
    \/ handle_move
    \/ DialogClose
    \/ DialogYes
    \/ Transfer
    \/ execute_confirm_action

\* a step of the engine in which no call fails
Proceed == Transfer /\ result' # "err"

\* a step of the engine that returns an error because no other step is
\* possible: the next call cannot succeed
MustFail == Transfer /\ ~ENABLED Proceed

\* the thread executes its next statement; an I/O call that can succeed may
\* fail all the same, but nothing obliges it to
TransferSpec == Init /\ [][TransferNext]_vars /\ WF_vars(Proceed) /\ WF_vars(MustFail)

\* a Copy or a Move is executing
Transferring == operation.operation_type \in {"Copy", "Move"} /\ pc \in Running

\* some source is the destination directory or one above it
DestinationInsideSource ==
    \E k \in DOMAIN operation.source_files :
        IsPrefix(operation.source_files[k], operation.destination)

\* C34: a Copy or Move that is executing and that nobody cancels returns in
\* the end, with Ok or with an error, whatever the destination directory
C34_TransferReturns == Transferring ~> Returned

\* a transfer into one of its own source directories has returned and was
\* never cancelled
C34_Witness ==
    /\ operation.operation_type \in {"Copy", "Move"}
    /\ Returned /\ ~operation.cancelled
    /\ DestinationInsideSource
    /\ \E k \in DOMAIN operation.source_files : is_dir(fs0, operation.source_files[k])

\* ---- the indices of a pane
\* the selected indices and the cursor of pane are within its entries
IndicesInRange(pane) ==
    /\ \A i \in pane.selected_indices : i < Len(pane.entries)
    /\ pane.cursor_index < Max(1, Len(pane.entries))

\* C35: in every state PaneState's operations lead to, a refresh that failed
\* included, every selected index is below entries.len() and cursor_index is
\* below max(1, entries.len())
C35_IndicesAlwaysInRange == IndicesInRange(get_active_pane)

\* ---- the selection across a refresh
\* C36: after a successful refresh of a pane whose directory has changed
\* since the refresh before it, every index kept in selected_indices denotes
\* the entry of the name it denoted before
C36_SelectedNamesKept ==
    [][(ret'.fn = "refresh" /\ ret'.value.ok /\ last_refresh[active_pane]) =>
         \A i \in get_active_pane'.selected_indices :
             /\ i + 1 \in DOMAIN get_active_pane.entries
             /\ get_active_pane'.entries[i + 1].name = get_active_pane.entries[i + 1].name]_vars

\* ---- the archive flag and the handler
\* C37: a file name for which core::is_supported_archive or
\* archive::is_supported_archive answers true gets a handler from
\* create_archive_handler, never the unsupported-format error
C37_FlaggedArchiveHasHandler ==
    (/\ ret.fn = "create_archive_handler"
     /\ is_supported_archive(args.name) \/ archive_is_supported_archive(args.name))
        => ret.value # "Unsupported archive format"

\* ---- keys while a dialog is open
\* the step starts the execution of an operation
OperationStarts == operation.operation_type = "None" /\ operation'.operation_type # "None"

\* C38: a key handled while a Confirm or Error dialog is open changes no
\* pane and no file by itself; an operation starts only on 'y' from the
\* Confirm dialog of that same action; and a key that closes the dialog
\* without starting an operation changes neither the filesystem nor a pane
C38_DialogKeysOnly ==
    [][/\ current_dialog # NoDialog =>
            /\ left_pane' = left_pane /\ right_pane' = right_pane /\ fs' = fs
            /\ ~OperationStarts => (operation' = operation /\ pc' = pc)
       /\ OperationStarts =>
            /\ current_dialog.type = "Confirm"
            /\ operation'.operation_type = current_dialog.action
       /\ (pc = "idle" /\ pc' # "idle") => OperationStarts]_vars

\* a Move confirmed with 'y' has been executed to its end and the dialog is
\* closed
C38_Witness ==
    /\ operation.operation_type = "Move" /\ OperationSucceeded
    /\ current_dialog = NoDialog

\* ---- enter_directory
\* C39: enter_directory(p) with p a directory leaves the pane at p with the
\* cursor and the scroll offset at 0, nothing selected and the entries of p;
\* with p no directory it returns Ok and leaves the pane as it was
C39_EnterDirectory ==
    [][ret'.fn = "enter_directory" =>
         IF is_dir(fs, ret'.value.new_path)
         THEN /\ left_pane'.current_path = ret'.value.new_path
              /\ left_pane'.cursor_index = 0
              /\ left_pane'.scroll_offset = 0
              /\ left_pane'.selected_indices = {}
              /\ EntriesReflect(left_pane', fs)
         ELSE ret'.value.ok /\ left_pane' = left_pane]_vars

\* ---- the viewer
\* the current line is a line of the file (0 when it has none) and the
\* scroll offset is at most the number of lines
ViewerInBounds(viewer) ==
    /\ viewer.current_line <= Max(0, Len(viewer.lines) - 1)
    /\ viewer.scroll_offset <= Len(viewer.lines)

\* C40: after every key the viewer handles, with any visible_lines,
\* current_line is at most max(0, lines.len()-1), scroll_offset at most
\* lines.len() and the slice render takes is in bounds whatever the height;
\* handle_key returns false for F10 and Esc, true for every other key, and
\* when it returns false the viewer is as it was
C40_ViewerStaysInBounds ==
    [][(args.fn = "viewer" /\ args.mode = "Viewer" /\ ret'.fn = "handle_key") =>
         /\ ViewerInBounds(ret'.value.viewer)
         /\ \A visible_lines \in VisibleLines :
                ~render(ret'.value.viewer, visible_lines).panic
         /\ ret'.value.continue = (ret'.value.key \notin {"F10", "Esc"})
         /\ ~ret'.value.continue => ret'.value.viewer = args.viewer[1]]_vars

\* a PageDown on a height of no lines has left the scroll offset at the
\* number of lines, past the current line
C40_Witness ==
    /\ ret.fn = "handle_key" /\ ret.value.key = "PageDown"
    /\ ret.value.viewer.scroll_offset = Len(ret.value.viewer.lines)
    /\ ret.value.viewer.current_line < ret.value.viewer.scroll_offset
    /\ ret.value.viewer.lines # <<>>

====
